---- MODULE Spec2Model ----
(***************************************************************************)
(* nit: version control for one agent card.                                *)
(*                                                                         *)
(* The state is the file system the program works on: the .nit directory   *)
(* (object store, branch refs, HEAD, remote-tracking refs, identity) and   *)
(* the working document agent-card.json beside it.  Every JavaScript       *)
(* string is a Text: a sequence of tokens.  Every public operation is an   *)
(* operator from a disk to a disk, an error and a return value, built from *)
(* the same file-system calls, in the same order, as the source.           *)
(***************************************************************************)
EXTENDS Integers, Sequences, FiniteSets, TLC

\* Bounds of the model.
MaxCommits == 2
MaxTime == 1

\* the file-system calls a process may live for before it dies
MaxFuel == 8

\* count ?? 50 in log
DefaultLogLimit == 50

VARIABLES nitDir, objects, heads, headFile, remotes, workFile, identity, server, now, last,
          phase, writers

vars == <<nitDir, objects, heads, headFile, remotes, workFile, identity, server, now, last,
         phase, writers>>

diskVars == <<nitDir, objects, heads, headFile, remotes, workFile, identity, server>>

(***************************************************************************)
(* Text: strings as token sequences                                        *)
(***************************************************************************)

Tok(k, v) == [k |-> k, v |-> v]

\* "\n"
NL == Tok("nl", "")

\* " "
SP == Tok("sp", "")

\* a run of characters holding neither a space nor a line break
Str(s) == Tok("str", s)

\* the decimal rendering of a number, as a template string prints it
Num(n) == Tok("num", n)

\* JSON.stringify(v, null, 2)
Json(v) == Tok("json", v)

\* the JavaScript values null and undefined, where a string is expected
NULL == <<Tok("null", "")>>

UNDEFINED == <<Tok("undefined", "")>>

\* the bytes of a file that does not exist (a read of it throws ENOENT)
ENOENT == <<Tok("ENOENT", "")>>

IsSpace(tok) == tok.k \in {"nl", "sp"}

RECURSIVE TrimStart(_)
TrimStart(t) == IF t # <<>> /\ IsSpace(Head(t)) THEN TrimStart(Tail(t)) ELSE t

RECURSIVE TrimEnd(_)
TrimEnd(t) == IF t # <<>> /\ IsSpace(t[Len(t)]) THEN TrimEnd(SubSeq(t, 1, Len(t) - 1)) ELSE t

\* String.prototype.trim
Trim(t) == TrimEnd(TrimStart(t))

\* String.prototype.startsWith
StartsWith(t, p) == Len(t) >= Len(p) /\ SubSeq(t, 1, Len(p)) = p

\* String.prototype.slice(n) for 0 <= n
Slice(t, n) == SubSeq(t, n + 1, Len(t))

\* String.prototype.slice(0, n); a negative n counts from the end
SliceTo(t, n) == IF n >= 0 THEN SubSeq(t, 1, n) ELSE SubSeq(t, 1, Len(t) + n)

\* the 0-based index of the last tok in t, -1 when there is none
RECURSIVE LastIndexOf(_, _)
LastIndexOf(t, tok) ==
    IF t = <<>> THEN -1
    ELSE IF t[Len(t)] = tok THEN Len(t) - 1
    ELSE LastIndexOf(SubSeq(t, 1, Len(t) - 1), tok)

\* String.prototype.split("\n"): the lines of t
RECURSIVE Split(_)
Split(t) ==
    IF \A i \in 1..Len(t) : t[i] # NL THEN <<t>>
    ELSE LET i == CHOOSE j \in 1..Len(t) : t[j] = NL /\ \A k \in 1..(j - 1) : t[k] # NL
         IN  <<SubSeq(t, 1, i - 1)>> \o Split(SubSeq(t, i + 1, Len(t)))

\* Array.prototype.join("\n")
RECURSIVE Join(_)
Join(lines) ==
    IF lines = <<>> THEN <<>>
    ELSE IF Len(lines) = 1 THEN lines[1]
    ELSE lines[1] \o <<NL>> \o Join(Tail(lines))

\* parseInt(t, 10): NaN unless t starts with a number
NaN == -1

ParseInt(t) == IF t # <<>> /\ t[1].k = "num" THEN t[1].v ELSE NaN

\* `${v}` of a value that may be undefined
Template(t) == IF t = UNDEFINED THEN <<Str("undefined")>> ELSE t

\* a string used as a condition: "", null and undefined are falsy
Truthy(t) == t # <<>> /\ t # NULL /\ t # UNDEFINED

\* the outcome of a call: a value returned or an error thrown
Return(v) == [ok |-> TRUE, err |-> "", v |-> v]

Throw(e) == [ok |-> FALSE, err |-> e, v |-> <<>>]

(***************************************************************************)
(* objects.ts: hashing, commit serialization                               *)
(***************************************************************************)

\* SHA-256 of "{type} {byteLength}\0{content}" in hex: one token naming what
\* was hashed (the hash is taken to be collision-free)
hashObject(type, content) == <<Tok("sha256", [type |-> type, content |-> content])>>

serializeCommit(commit) ==
    LET cardLine == <<Str("card"), SP>> \o commit.card
        parentLine == IF commit.parent # NULL
                      THEN << <<Str("parent"), SP>> \o commit.parent >>
                      ELSE <<>>
        authorLine == <<Str("author"), SP>> \o Template(commit.author)
                          \o <<SP, Num(commit.timestamp)>>
    IN  Join(<<cardLine>> \o parentLine \o <<authorLine, <<>>, commit.message>>)

\* the header loop of parseCommit from line i on, acc the fields read so far
RECURSIVE ParseHeader(_, _, _)
ParseHeader(lines, i, acc) ==
    IF i > Len(lines) THEN acc
    ELSE LET line == lines[i] IN
         IF line = <<>> THEN [acc EXCEPT !.messageStart = i + 1]
         ELSE IF StartsWith(line, <<Str("card"), SP>>)
              THEN ParseHeader(lines, i + 1, [acc EXCEPT !.card = Slice(line, 2)])
         ELSE IF StartsWith(line, <<Str("parent"), SP>>)
              THEN ParseHeader(lines, i + 1, [acc EXCEPT !.parent = Slice(line, 2)])
         ELSE IF StartsWith(line, <<Str("author"), SP>>)
              THEN LET authorPart == Slice(line, 2)
                       lastSpace == LastIndexOf(authorPart, SP)
                   IN  ParseHeader(lines, i + 1,
                           [acc EXCEPT !.author = SliceTo(authorPart, lastSpace),
                                       !.timestamp = ParseInt(Slice(authorPart, lastSpace + 1))])
         ELSE ParseHeader(lines, i + 1, acc)

parseCommit(hash, raw) ==
    LET lines == Split(raw)
        h == ParseHeader(lines, 1,
                 [card |-> <<>>, parent |-> NULL, author |-> <<>>, timestamp |-> 0,
                  messageStart |-> 0])
    IN  IF ~Truthy(h.card) THEN Throw("Malformed")
        ELSE Return([type |-> "commit", hash |-> hash, card |-> h.card,
                     parent |-> h.parent, author |-> h.author,
                     timestamp |-> h.timestamp,
                     message |-> IF h.messageStart >= 1
                                 THEN Join(SubSeq(lines, h.messageStart, Len(lines)))
                                 ELSE <<>>])

\* JSON.stringify(card, null, 2)
JSONstringify(card) == <<Json(card)>>

\* JSON.parse: surrounding white space is skipped, anything else throws
JSONparse(raw) ==
    LET t == Trim(raw)
    IN  IF Len(t) = 1 /\ t[1].k = "json" THEN Return(t[1].v) ELSE Throw("SyntaxError")

(***************************************************************************)
(* The agent card and the documents of the model                           *)
(***************************************************************************)

NoProvider == [defined |-> FALSE, organization |-> <<>>, url |-> UNDEFINED]

\* the project directory's name
basename == <<Str("proj")>>

\* keys: the members of the record in the order they were written, which is
\* the order JSON.stringify prints them in
Skill(id, name, description) ==
    [id |-> id, name |-> name, description |-> description,
     keys |-> <<"id", "name", "description">>]

\* discoverSkills: the SKILL.md files found on this machine (one, for skill s1)
discoverSkills == << [id |-> <<Str("s1")>>, name |-> <<Str("S1")>>,
                      description |-> <<Str("one")>>] >>

\* s1 as its SKILL.md describes it, s1 with an older name, and s2 (no SKILL.md)
SkillS1 == Skill(<<Str("s1")>>, <<Str("S1")>>, <<Str("one")>>)

SkillS1Stale == Skill(<<Str("s1")>>, <<Str("old")>>, <<Str("one")>>)

SkillS2 == Skill(<<Str("s2")>>, <<Str("S2")>>, <<Str("two")>>)

\* `ed25519:${pubBase64}`
formatPublicKeyField(pubBase64) == <<Str("ed25519:")>> \o pubBase64

\* An AgentCard (types.ts); extra stands for any key outside the schema.
Card(description, publicKey, skills, extra) ==
    [protocolVersion |-> <<Str("0.3.0")>>, name |-> <<Str("agent")>>,
     description |-> description, version |-> <<Str("1.0.0")>>, url |-> <<>>,
     publicKey |-> publicKey, iconUrl |-> UNDEFINED, documentationUrl |-> UNDEFINED,
     provider |-> NoProvider,
     defaultInputModes |-> << <<Str("text/plain")>> >>,
     defaultOutputModes |-> << <<Str("text/plain")>> >>,
     skills |-> skills, extra |-> extra]

\* the description init gives a new card, which a user may also have written
D0 == <<Str("AI"), SP, Str("agent"), SP, Str("working"), SP, Str("in"), SP>> \o basename

D1 == <<Str("d1")>>

\* The documents a user may leave in agent-card.json before init
InitialDocs ==
    { Card(D0, UNDEFINED, <<SkillS1, SkillS2>>, UNDEFINED),
      Card(D0, UNDEFINED, <<SkillS1Stale, SkillS2>>, UNDEFINED) }

(***************************************************************************)
(* diff.ts                                                                 *)
(***************************************************************************)

scalarFields == <<"protocolVersion", "name", "description", "version", "url",
                  "publicKey", "iconUrl", "documentationUrl">>

arrayFields == <<"defaultInputModes", "defaultOutputModes">>

\* the keys of new Map(skills.map((s) => [s.id, s])), in insertion order
MapKeys(skills) ==
    LET ids == [i \in 1..Len(skills) |-> skills[i].id]
        first == SelectSeq([i \in 1..Len(ids) |-> i],
                        LAMBDA i : \A j \in 1..(i - 1) : ids[j] # ids[i])
    IN  [k \in 1..Len(first) |-> ids[first[k]]]

MapHas(skills, id) == \E i \in 1..Len(skills) : skills[i].id = id

\* a lookup by position: the first entry, whatever its id
MapGetFirst(skills, id) == skills[1]

\* Map.get: the last entry set under the id
MapGet(skills, id) ==
    skills[CHOOSE i \in 1..Len(skills) :
               skills[i].id = id /\ \A j \in (i + 1)..Len(skills) : skills[j].id # id]

\* JSON.stringify(skill): the members that are set, in the order of the keys
SkillText(skill) ==
    LET ks == SelectSeq(skill.keys, LAMBDA k : skill[k] # UNDEFINED)
    IN  [i \in 1..Len(ks) |-> <<ks[i], skill[ks[i]]>>]

\* an equality that never holds
skillsEqualNever(a, b) == FALSE

\* JSON.stringify(a) === JSON.stringify(b)
skillsEqual(a, b) == SkillText(a) = SkillText(b)

\* fields holds the names of the differing fields, in the order they are pushed
diffCards(oldCard, newCard) ==
    LET scalars == SelectSeq(scalarFields, LAMBDA f : oldCard[f] # newCard[f])
        provider == IF oldCard.provider # newCard.provider THEN <<"provider">> ELSE <<>>
        arrays == SelectSeq(arrayFields, LAMBDA f : oldCard[f] # newCard[f])
        fields == scalars \o provider \o arrays
        skillsAdded == SelectSeq(MapKeys(newCard.skills),
                              LAMBDA id : ~MapHas(oldCard.skills, id))
        skillsRemoved == SelectSeq(MapKeys(oldCard.skills),
                                LAMBDA id : ~MapHas(newCard.skills, id))
        skillsModified == SelectSeq(MapKeys(newCard.skills),
                                 LAMBDA id : /\ MapHas(oldCard.skills, id)
                                             /\ ~skillsEqual(MapGet(oldCard.skills, id),
                                                             MapGet(newCard.skills, id)))
    IN  [changed |-> \/ Len(fields) > 0
                     \/ Len(skillsAdded) > 0
                     \/ Len(skillsRemoved) > 0
                     \/ Len(skillsModified) > 0,
         fields |-> fields, skillsAdded |-> skillsAdded,
         skillsRemoved |-> skillsRemoved, skillsModified |-> skillsModified]

(***************************************************************************)
(* skills.ts                                                               *)
(***************************************************************************)

resolveSkillPointers(card) ==
    LET resolve(skill) ==
            IF \E i \in 1..Len(discoverSkills) : discoverSkills[i].id = skill.id
            THEN LET meta == discoverSkills[CHOOSE i \in 1..Len(discoverSkills) :
                                                discoverSkills[i].id = skill.id]
                 IN  [skill EXCEPT !.name = meta.name, !.description = meta.description]
            ELSE skill
    IN  [card EXCEPT !.skills = [i \in 1..Len(card.skills) |-> resolve(card.skills[i])]]

(***************************************************************************)
(* The file system                                                         *)
(***************************************************************************)

\* A disk: nitDir says whether .nit/ exists; objects, heads and remotes map
\* the names of the files under objects/, refs/heads/ and refs/remote/ to
\* their bytes; headFile, workFile and the three identity files hold their
\* bytes, or ENOENT.  With the disk goes what the server of the remote has
\* stored, which a request of an operation may change.
Disk == [nitDir |-> nitDir, objects |-> objects, heads |-> heads, headFile |-> headFile,
         remotes |-> remotes, workFile |-> workFile, identity |-> identity,
         server |-> server]

EmptyMap == [x \in {} |-> <<>>]

Path(dir, name) == [dir |-> dir, name |-> name]

HEADPath == Path("HEAD", <<>>)

CardPath == Path("agent-card.json", <<>>)

PubPath == Path("identity/agent.pub", <<>>)

KeyPath == Path("identity/agent.key", <<>>)

AgentIdPath == Path("identity/agent-id", <<>>)

\* join(nitDir, 'objects', hex.slice(0, 2), hex.slice(2))
ObjectPath(hex) == Path("objects", hex)

\* join(nitDir, 'refs', 'heads', branch)
BranchPath(branch) == Path("refs/heads", branch)

\* join(nitDir, 'refs', 'remote', remote, branch)
RemotePath(remote, branch) == Path("refs/remote", remote \o <<Str("/")>> \o branch)

\* join(nitDir, ref) for the ref that HEAD names
RefPath(ref) ==
    IF StartsWith(ref, <<Str("refs/heads/")>>) THEN BranchPath(Slice(ref, 1))
    ELSE Path("nowhere", ref)

Lookup(map, name) == IF name \in DOMAIN map THEN map[name] ELSE ENOENT

\* the bytes of the file at path, ENOENT when there is none
fsRead(d, path) ==
    CASE path.dir = "objects" -> Lookup(d.objects, path.name)
      [] path.dir = "refs/heads" -> Lookup(d.heads, path.name)
      [] path.dir = "refs/remote" -> Lookup(d.remotes, path.name)
      [] path.dir = "HEAD" -> d.headFile
      [] path.dir = "agent-card.json" -> d.workFile
      [] path.dir = "identity/agent.pub" -> d.identity.pub
      [] path.dir = "identity/agent.key" -> d.identity.key
      [] path.dir = "identity/agent-id" -> d.identity.id
      [] OTHER -> ENOENT

\* the .nit directory itself
NitPath == Path(".nit", <<>>)

\* a variant of fsAccess that finds nothing
fsAccessFails(d, path) == FALSE

\* fs.access(path) succeeds
fsAccess(d, path) == IF path.dir = ".nit" THEN d.nitDir ELSE fsRead(d, path) # ENOENT

\* the disk with the file at path holding bytes
fsPut(d, path, bytes) ==
    CASE path.dir = "objects" -> [d EXCEPT !.objects = (path.name :> bytes) @@ @]
      [] path.dir = "refs/heads" -> [d EXCEPT !.heads = (path.name :> bytes) @@ @]
      [] path.dir = "refs/remote" -> [d EXCEPT !.remotes = (path.name :> bytes) @@ @]
      [] path.dir = "HEAD" -> [d EXCEPT !.headFile = bytes]
      [] path.dir = "agent-card.json" -> [d EXCEPT !.workFile = bytes]
      [] path.dir = "identity/agent.pub" -> [d EXCEPT !.identity.pub = bytes]
      [] path.dir = "identity/agent.key" -> [d EXCEPT !.identity.key = bytes]
      [] path.dir = "identity/agent-id" -> [d EXCEPT !.identity.id = bytes]
      [] OTHER -> d

\* A run of one operation: the disk so far, the number of file-system calls
\* the process still lives for, and whether it died before one of them.  A run
\* with Forever fuel is one that is not interrupted.
Forever == 99

Run(d, fuel) == [d |-> d, fuel |-> fuel, crashed |-> FALSE]

\* one system call that changes the disk to d2
Sys(m, d2) ==
    IF m.fuel > 0 THEN [d |-> d2, fuel |-> m.fuel - 1, crashed |-> FALSE]
    ELSE [m EXCEPT !.crashed = TRUE]

\* fs.writeFile(path, bytes), one call of the file system
fsWriteFile(m, path, bytes) == Sys(m, fsPut(m.d, path, bytes))

\* what an operation leaves: the disk, whether the process died on the way,
\* the error thrown ("" for none) and the value returned
Done(m, err, ret) == [d |-> m.d, crashed |-> m.crashed, err |-> err, ret |-> ret]

(***************************************************************************)
(* objects.ts: the object store                                            *)
(***************************************************************************)

\* writeObject returns hashObject(type, content); this is what it does to the disk
writeObject(m, type, content) ==
    LET hex == hashObject(type, content)
    IN  IF fsAccess(m.d, ObjectPath(hex)) THEN m
        ELSE fsWriteFile(m, ObjectPath(hex), content)

readObject(d, hash) ==
    LET raw == fsRead(d, ObjectPath(hash))
    IN  IF raw = ENOENT THEN Throw("NotFound") ELSE Return(raw)

(***************************************************************************)
(* refs.ts                                                                 *)
(***************************************************************************)

MAIN == <<Str("main")>>

FAAM == <<Str("faam.io")>>

ORIGIN == <<Str("origin")>>

\* the branch names of the model, in localeCompare order
BranchNames == <<FAAM, MAIN>>

getHead(d) ==
    LET raw == fsRead(d, HEADPath)
        content == Trim(raw)
    IN  IF raw = ENOENT THEN Throw("ENOENT")
        ELSE IF ~StartsWith(content, <<Str("ref:"), SP>>) THEN Throw("CorruptState")
        ELSE Return(Slice(content, 2))

resolveHead(d) ==
    LET head == getHead(d)
        raw == fsRead(d, RefPath(head.v))
    IN  IF ~head.ok THEN head
        ELSE IF raw = ENOENT THEN Throw("EmptyRepository")
        ELSE Return(Trim(raw))

\* a variant of getCurrentBranch that always answers main
getCurrentBranchMain(d) == Return(MAIN)

getCurrentBranch(d) ==
    LET head == getHead(d)
    IN  IF ~head.ok THEN head
        ELSE IF ~StartsWith(head.v, <<Str("refs/heads/")>>) THEN Throw("CorruptState")
        ELSE Return(Slice(head.v, 1))

\* a variant of setBranch that always writes the ref of main
setBranchMain(m, branch, commitHash) ==
    fsWriteFile(m, BranchPath(MAIN), commitHash \o <<NL>>)

setBranch(m, branch, commitHash) == fsWriteFile(m, BranchPath(branch), commitHash \o <<NL>>)

\* a variant of getBranch that finds no branch
getBranchNull(d, branch) == NULL

\* null when the branch does not exist
getBranch(d, branch) ==
    LET raw == fsRead(d, BranchPath(branch))
    IN  IF raw = ENOENT THEN NULL ELSE Trim(raw)

listBranches(d) ==
    LET names == SelectSeq(BranchNames, LAMBDA b : b \in DOMAIN d.heads)
    IN  [i \in 1..Len(names) |-> [name |-> names[i], commitHash |-> Trim(d.heads[names[i]])]]

\* a variant of setHead that writes the name without the ref: prefix
setHeadBare(m, branch) == fsWriteFile(m, HEADPath, branch \o <<NL>>)

\* a variant of setHead that leaves HEAD as it is
setHeadNowhere(m, branch) == m

setHead(m, branch) ==
    fsWriteFile(m, HEADPath, <<Str("ref:"), SP, Str("refs/heads/")>> \o branch \o <<NL>>)

\* a variant that writes every remote-tracking digest under the name main
setRemoteRefMain(m, remote, branch, commitHash) ==
    fsWriteFile(m, RemotePath(remote, MAIN), commitHash \o <<NL>>)

setRemoteRef(m, remote, branch, commitHash) ==
    fsWriteFile(m, RemotePath(remote, branch), commitHash \o <<NL>>)

\* a lookup that finds no remote-tracking ref
getRemoteRefNull(d, remote, branch) == NULL

getRemoteRef(d, remote, branch) ==
    LET raw == fsRead(d, RemotePath(remote, branch))
    IN  IF raw = ENOENT THEN NULL ELSE Trim(raw)

(***************************************************************************)
(* identity.ts                                                             *)
(***************************************************************************)

\* generateKeyPairSync: a key this store has not held before
NewKey(d) == IF d.identity.pub = <<Str("k1"), NL>> THEN <<Str("k2")>> ELSE <<Str("k1")>>

generateKeypair(m, pubBase64) ==
    LET m1 == fsWriteFile(m, PubPath, pubBase64 \o <<NL>>)
    IN  fsWriteFile(m1, KeyPath, <<Str("private:")>> \o pubBase64 \o <<NL>>)

\* field.slice(prefix.length) of a field that starts with "ed25519:"
parsePublicKeyField(field) ==
    IF ~StartsWith(field, <<Str("ed25519:")>>) THEN Throw("Invalid publicKey format")
    ELSE Return(Slice(field, 1))

\* the message of an Error, which the model names by its text
ErrMessage(e) == <<Str(e)>>

loadPublicKey(d) ==
    LET raw == fsRead(d, PubPath)
    IN  IF raw = ENOENT
        THEN Throw("No identity found. Run nit init to generate a keypair.")
        ELSE Return(Trim(raw))

\* the KeyObject made of the JWK with x the public and d the private half
loadPrivateKey(d) ==
    LET pubBase64 == loadPublicKey(d)
        raw == fsRead(d, KeyPath)
    IN  IF ~pubBase64.ok THEN pubBase64
        ELSE IF raw = ENOENT
        THEN Throw("Private key not found at .nit/identity/agent.key. Regenerate with nit init.")
        ELSE Return([x |-> pubBase64.v, d |-> Trim(raw)])

\* crypto.sign(null, message, privateKey) in base64: an Ed25519 signature is a
\* function of the private half and of every byte of the message
Ed25519Sign(message, privateKey) == <<Tok("sig", [d |-> privateKey.d, msg |-> message])>>

\* the private half that generateKeypair stores with the public half x
PrivateOf(x) == <<Str("private:")>> \o x

\* a variant of verifySignature that accepts every signature
verifySignatureAny(pubBase64, challenge, signatureBase64) == TRUE

\* crypto.verify: the signature is the one the matching private half makes
\* of exactly this message
verifySignature(pubBase64, challenge, signatureBase64) ==
    signatureBase64 = Ed25519Sign(challenge, [x |-> pubBase64, d |-> PrivateOf(pubBase64)])

signChallenge(d, challenge) ==
    LET privateKey == loadPrivateKey(d)
    IN  IF ~privateKey.ok THEN privateKey
        ELSE Return(Ed25519Sign(challenge, privateKey.v))

signMessage(d, message) ==
    LET privateKey == loadPrivateKey(d)
    IN  IF ~privateKey.ok THEN privateKey
        ELSE Return(Ed25519Sign(message, privateKey.v))

NIT_NAMESPACE == <<Str("801ba518-f326-47e5-97c9-d1efd1865a19")>>

\* UUIDv5 of the field under the namespace: one identifier per key field
uuidv5(name, namespace) == <<Tok("uuid5", [name |-> name, namespace |-> namespace])>>

deriveAgentId(publicKeyField) == uuidv5(publicKeyField, NIT_NAMESPACE)

loadAgentId(d) ==
    LET raw == fsRead(d, AgentIdPath)
    IN  IF raw = ENOENT
        THEN Throw("No agent ID found. Run nit init to generate identity.")
        ELSE Return(Trim(raw))

\* fs.writeFile of identity/agent-id, which fails where .nit/identity is missing
saveAgentId(D, agentId, fuel) ==
    LET m == Run(D, fuel)
    IN  IF ~D.nitDir THEN Done(m, "ENOENT", <<>>)
        ELSE Done(fsWriteFile(m, AgentIdPath, agentId \o <<NL>>), "", <<>>)

(***************************************************************************)
(* index.ts: helpers                                                       *)
(***************************************************************************)

\* a variant of readWorkingCard that cannot read the document
readWorkingCardFails(d) == Throw("CannotRead")

readWorkingCard(d) ==
    LET raw == fsRead(d, CardPath)
        parsed == JSONparse(raw)
    IN  IF raw = ENOENT \/ ~parsed.ok THEN Throw("CannotRead") ELSE parsed

\* a variant of writeWorkingCard that writes nothing
writeWorkingCardSkipped(m, card) == m

writeWorkingCard(m, card) == fsWriteFile(m, CardPath, JSONstringify(card) \o <<NL>>)

getCardAtCommit(d, commitHash) ==
    LET commitRaw == readObject(d, commitHash)
        commit == parseCommit(commitHash, commitRaw.v)
        cardRaw == readObject(d, commit.v.card)
    IN  IF ~commitRaw.ok THEN commitRaw
        ELSE IF ~commit.ok THEN commit
        ELSE IF ~cardRaw.ok THEN cardRaw
        ELSE JSONparse(cardRaw.v)

getAuthorName(d) ==
    LET card == readWorkingCard(d)
    IN  IF card.ok /\ Truthy(card.v.name) THEN card.v.name ELSE basename

(***************************************************************************)
(* index.ts: init                                                          *)
(***************************************************************************)

\* the card init makes up when there is no readable agent-card.json
DefaultCard(publicKeyField) ==
    [Card(<<Str("AI"), SP, Str("agent"), SP, Str("working"), SP, Str("in"), SP>> \o basename,
          publicKeyField,
          [i \in 1..Len(discoverSkills) |->
              Skill(discoverSkills[i].id, discoverSkills[i].name,
                    discoverSkills[i].description)],
          UNDEFINED)
     EXCEPT !.name = basename]

init(D, fuel, t) ==
    IF fsAccess(D, NitPath) THEN Done(Run(D, fuel), "AlreadyExists", <<>>)
    ELSE
    LET \* the mkdir calls
        m1 == Sys(Run(D, fuel), [D EXCEPT !.nitDir = TRUE])
        pubBase64 == NewKey(D)
        m2 == generateKeypair(m1, pubBase64)
        publicKeyField == formatPublicKeyField(pubBase64)
        existing == JSONparse(fsRead(m2.d, CardPath))
        card == IF fsRead(m2.d, CardPath) # ENOENT /\ existing.ok
                THEN [existing.v EXCEPT !.publicKey = publicKeyField]
                ELSE DefaultCard(publicKeyField)
        m3 == writeWorkingCard(m2, card)
        cardJson == JSONstringify(card)
        m4 == writeObject(m3, "card", cardJson)
        cardHash == hashObject("card", cardJson)
        commitContent == serializeCommit([card |-> cardHash, parent |-> NULL,
                                          author |-> card.name, timestamp |-> t,
                                          message |-> <<Str("Initial"), SP, Str("commit")>>])
        m5 == writeObject(m4, "commit", commitContent)
        commitHash == hashObject("commit", commitContent)
        m6 == setBranch(m5, MAIN, commitHash)
        m7 == setHead(m6, MAIN)
    IN  Done(m7, "", publicKeyField)

(***************************************************************************)
(* index.ts: commit                                                        *)
(***************************************************************************)

\* a variant of commit that advances the branch ref before it writes the
\* commit object
commitRefFirst(D, message, fuel, t, t2) ==
    LET m0 == Run(D, fuel)
        read == readWorkingCard(D)
        card == resolveSkillPointers(read.v)
        m1 == writeWorkingCard(m0, card)
        cardJson == JSONstringify(card)
        m2 == writeObject(m1, "card", cardJson)
        cardHash == hashObject("card", cardJson)
        currentBranch == getCurrentBranch(m2.d)
        parentHash == getBranch(m2.d, currentBranch.v)
        parentRaw == readObject(m2.d, parentHash)
        parentCommit == parseCommit(parentHash, parentRaw.v)
        author == getAuthorName(m2.d)
        commitContent == serializeCommit([card |-> cardHash, parent |-> parentHash,
                                          author |-> author, timestamp |-> t,
                                          message |-> message])
        commitHash == hashObject("commit", commitContent)
        m3 == setBranch(m2, currentBranch.v, commitHash)
        m4 == writeObject(m3, "commit", commitContent)
    IN  IF ~D.nitDir THEN Done(m0, "NotARepository", <<>>)
        ELSE IF ~read.ok THEN Done(m0, read.err, <<>>)
        ELSE IF ~currentBranch.ok THEN Done(m2, currentBranch.err, <<>>)
        ELSE IF Truthy(parentHash) /\ ~parentRaw.ok THEN Done(m2, parentRaw.err, <<>>)
        ELSE IF Truthy(parentHash) /\ ~parentCommit.ok THEN Done(m2, parentCommit.err, <<>>)
        ELSE IF Truthy(parentHash) /\ parentCommit.v.card = cardHash
             THEN Done(m2, "NoChanges", <<>>)
        ELSE Done(m4, "", [type |-> "commit", hash |-> commitHash, card |-> cardHash,
                           parent |-> parentHash, author |-> author, timestamp |-> t2,
                           message |-> message])

\* t is the clock when the commit is serialized, t2 when the result is built
commit(D, message, fuel, t, t2) ==
    LET m0 == Run(D, fuel)
        read == readWorkingCard(D)
        card == resolveSkillPointers(read.v)
        m1 == writeWorkingCard(m0, card)
        cardJson == JSONstringify(card)
        m2 == writeObject(m1, "card", cardJson)
        cardHash == hashObject("card", cardJson)
        currentBranch == getCurrentBranch(m2.d)
        parentHash == getBranch(m2.d, currentBranch.v)
        parentRaw == readObject(m2.d, parentHash)
        parentCommit == parseCommit(parentHash, parentRaw.v)
        author == getAuthorName(m2.d)
        commitContent == serializeCommit([card |-> cardHash, parent |-> parentHash,
                                          author |-> author, timestamp |-> t,
                                          message |-> message])
        m3 == writeObject(m2, "commit", commitContent)
        commitHash == hashObject("commit", commitContent)
        m4 == setBranch(m3, currentBranch.v, commitHash)
    IN  IF ~D.nitDir THEN Done(m0, "NotARepository", <<>>)
        ELSE IF ~read.ok THEN Done(m0, read.err, <<>>)
        ELSE IF ~currentBranch.ok THEN Done(m2, currentBranch.err, <<>>)
        ELSE IF Truthy(parentHash) /\ ~parentRaw.ok THEN Done(m2, parentRaw.err, <<>>)
        ELSE IF Truthy(parentHash) /\ ~parentCommit.ok THEN Done(m2, parentCommit.err, <<>>)
        ELSE IF Truthy(parentHash) /\ parentCommit.v.card = cardHash
             THEN Done(m2, "NoChanges", <<>>)
        ELSE Done(m4, "", [type |-> "commit", hash |-> commitHash, card |-> cardHash,
                           parent |-> parentHash, author |-> author, timestamp |-> t2,
                           message |-> message])

(***************************************************************************)
(* index.ts: log, diff, status                                             *)
(***************************************************************************)

\* a variant of the while loop of log that ignores the limit
RECURSIVE logWalkAll(_, _, _, _)
logWalkAll(d, hash, commits, limit) ==
    IF ~Truthy(hash) THEN Return(commits)
    ELSE LET raw == readObject(d, hash)
             c == parseCommit(hash, raw.v)
         IN  IF ~raw.ok THEN raw
             ELSE IF ~c.ok THEN c
             ELSE logWalkAll(d, c.v.parent, Append(commits, c.v), limit)

\* the while loop of log
RECURSIVE logWalk(_, _, _, _)
logWalk(d, hash, commits, limit) ==
    IF ~(Truthy(hash) /\ Len(commits) < limit) THEN Return(commits)
    ELSE LET raw == readObject(d, hash)
             c == parseCommit(hash, raw.v)
         IN  IF ~raw.ok THEN raw
             ELSE IF ~c.ok THEN c
             ELSE logWalk(d, c.v.parent, Append(commits, c.v), limit)

\* options.count is a number, or the empty sequence when it is not given
log(D, count) ==
    LET currentBranch == getCurrentBranch(D)
        hash == getBranch(D, currentBranch.v)
        limit == IF count = <<>> THEN DefaultLogLimit ELSE count[1]
        walk == logWalk(D, hash, <<>>, limit)
    IN  IF ~D.nitDir THEN Done(Run(D, Forever), "NotARepository", <<>>)
        ELSE IF ~currentBranch.ok THEN Done(Run(D, Forever), currentBranch.err, <<>>)
        ELSE Done(Run(D, Forever), walk.err, walk.v)

\* a test no target passes
IsDigestNever(target) == FALSE

\* /^[0-9a-f]{64}$/
IsDigest(target) == Len(target) = 1 /\ target[1].k = "sha256"

diff(D, target) ==
    LET m == Run(D, Forever)
        headHash == resolveHead(D)
        headCard == getCardAtCommit(D, headHash.v)
        workingCard == readWorkingCard(D)
        targetBranchHash == getBranch(D, target)
        targetCard == getCardAtCommit(D, IF Truthy(targetBranchHash)
                                         THEN targetBranchHash ELSE target)
    IN  IF ~D.nitDir THEN Done(m, "NotARepository", <<>>)
        ELSE IF ~headHash.ok THEN Done(m, headHash.err, <<>>)
        ELSE IF ~headCard.ok THEN Done(m, headCard.err, <<>>)
        ELSE IF ~Truthy(target)
             THEN IF ~workingCard.ok THEN Done(m, workingCard.err, <<>>)
                  ELSE Done(m, "", diffCards(headCard.v, workingCard.v))
        ELSE IF Truthy(targetBranchHash) \/ IsDigest(target)
             THEN IF ~targetCard.ok THEN Done(m, targetCard.err, <<>>)
                  ELSE Done(m, "", diffCards(headCard.v, targetCard.v))
        ELSE Done(m, "UnknownTarget", <<>>)

\* the two ahead-count loops of status: stop is the remote-tracking digest,
\* or null for a branch never pushed
RECURSIVE aheadWalk(_, _, _, _)
aheadWalk(d, hash, stop, ahead) ==
    IF ~Truthy(hash) \/ hash = stop THEN ahead
    ELSE LET raw == readObject(d, hash)
             c == parseCommit(hash, raw.v)
         IN  IF ~raw.ok \/ ~c.ok THEN ahead + 1
             ELSE aheadWalk(d, c.v.parent, stop, ahead + 1)

status(D) ==
    LET m == Run(D, Forever)
        currentBranch == getCurrentBranch(D)
        headHash == resolveHead(D)
        headCard == getCardAtCommit(D, headHash.v)
        workingCard == readWorkingCard(D)
        d == diffCards(headCard.v, workingCard.v)
        uncommittedChanges ==
            IF headHash.ok /\ headCard.ok /\ workingCard.ok /\ d.changed THEN <<d>> ELSE <<>>
        branches == listBranches(D)
        ahead(b) ==
            LET remoteHash == getRemoteRef(D, ORIGIN, b.name)
            IN  IF Truthy(remoteHash) /\ remoteHash # b.commitHash
                THEN aheadWalk(D, b.commitHash, remoteHash, 0)
                ELSE IF ~Truthy(remoteHash) THEN aheadWalk(D, b.commitHash, NULL, 0)
                ELSE 0
    IN  IF ~D.nitDir THEN Done(m, "NotARepository", <<>>)
        ELSE IF ~currentBranch.ok THEN Done(m, currentBranch.err, <<>>)
        ELSE IF D.identity.pub = ENOENT THEN Done(m, "NoIdentity", <<>>)
        ELSE Done(m, "", [branch |-> currentBranch.v,
                          publicKey |-> formatPublicKeyField(Trim(D.identity.pub)),
                          uncommittedChanges |-> uncommittedChanges,
                          branches |-> [i \in 1..Len(branches) |->
                                           [name |-> branches[i].name,
                                            ahead |-> ahead(branches[i]), behind |-> 0]]])

(***************************************************************************)
(* index.ts: branch, checkout, push                                        *)
(***************************************************************************)

\* name is the empty string when branch is called to list
branch(D, name, fuel) ==
    LET m0 == Run(D, fuel)
        existing == getBranch(D, name)
        headHash == resolveHead(D)
        m1 == setBranch(m0, name, headHash.v)
    IN  IF ~D.nitDir THEN Done(m0, "NotARepository", <<>>)
        ELSE IF ~Truthy(name) THEN Done(m0, "", listBranches(D))
        ELSE IF Truthy(existing) THEN Done(m0, "AlreadyExists", <<>>)
        ELSE IF ~headHash.ok THEN Done(m0, headHash.err, <<>>)
        ELSE Done(m1, "", listBranches(m1.d))

\* a variant of checkout without the guard against uncommitted changes
checkoutUnguarded(D, branchName, fuel) ==
    LET m0 == Run(D, fuel)
        targetHash == getBranch(D, branchName)
        targetCard == getCardAtCommit(D, targetHash)
        m1 == writeWorkingCard(m0, targetCard.v)
        m2 == setHead(m1, branchName)
    IN  IF ~D.nitDir THEN Done(m0, "NotARepository", <<>>)
        ELSE IF ~Truthy(targetHash) THEN Done(m0, "NotFound", <<>>)
        ELSE IF ~targetCard.ok THEN Done(m0, targetCard.err, <<>>)
        ELSE Done(m2, "", <<>>)

checkout(D, branchName, fuel) ==
    LET m0 == Run(D, fuel)
        headHash == resolveHead(D)
        headCard == getCardAtCommit(D, headHash.v)
        workingCard == readWorkingCard(D)
        \* the guard throws only when the diff could be computed and reports a change
        guard == /\ headHash.ok /\ headCard.ok /\ workingCard.ok
                 /\ diffCards(headCard.v, workingCard.v).changed
        targetHash == getBranch(D, branchName)
        targetCard == getCardAtCommit(D, targetHash)
        m1 == writeWorkingCard(m0, targetCard.v)
        m2 == setHead(m1, branchName)
    IN  IF ~D.nitDir THEN Done(m0, "NotARepository", <<>>)
        ELSE IF guard THEN Done(m0, "UncommittedChanges", <<>>)
        ELSE IF ~Truthy(targetHash) THEN Done(m0, "NotFound", <<>>)
        ELSE IF ~targetCard.ok THEN Done(m0, targetCard.err, <<>>)
        ELSE Done(m2, "", <<>>)

(***************************************************************************)
(* The service behind the remote, as the protocol describes it             *)
(***************************************************************************)

\* the replay window of a signed request, in seconds
FiveMinutes == 300

\* the KV keys `${agent_id}:${branch}` and `${agent_id}:main:pubkey`
BranchKey(agentId, branchName) == agentId \o <<Str(":")>> \o branchName

PubkeyKey(agentId) == agentId \o <<Str(":main:pubkey")>>

\* a request: method, then host, path and query of its URL, the X-Nit
\* headers, the body; what is not sent is undefined
Request(method, host, path, query, headers, body) ==
    [method |-> method, host |-> host, path |-> path, query |-> query, headers |-> headers,
     body |-> body]

\* the host of the write endpoints, and the host that serves the card of an
\* identifier
API_BASE == <<Str("https://api.newtype-ai.org")>>

CardUrl(agentId) == <<Str("https://agent-")>> \o agentId \o <<Str(".newtype-ai.org")>>

NoHeaders == [agentId |-> UNDEFINED, timestamp |-> UNDEFINED, signature |-> UNDEFINED,
              challenge |-> UNDEFINED]

\* a response: its status and the text of its body, and what the service
\* stores after it
Response(kv, code, text) == [kv |-> kv, status |-> code, text |-> text]

\* the message a signed request must have been signed as, rebuilt from the
\* request as it arrived
CanonicalMessage(request) ==
    Join(<<request.method, request.path, request.headers.agentId, request.headers.timestamp>>)
        \o (IF request.body # UNDEFINED
            THEN <<NL, Tok("sha256hex", request.body)>> ELSE <<>>)

\* the time of the request is more than five minutes from the clock t
Stale(timestamp, t) ==
    LET ts == ParseInt(timestamp)
    IN  ts - t > FiveMinutes \/ t - ts > FiveMinutes

\* a variant of the key a write is verified under that trusts the key in
\* the body of every write to main
WriteKeyFromCard(kv, agentId, branchName, card) ==
    IF branchName = MAIN THEN card.publicKey
    ELSE IF PubkeyKey(agentId) \in DOMAIN kv THEN kv[PubkeyKey(agentId)]
    ELSE ENOENT

\* a variant of the key a write is verified under that trusts the key in
\* the body on every branch
WriteKeyAnyBranch(kv, agentId, branchName, card) ==
    IF PubkeyKey(agentId) \in DOMAIN kv THEN kv[PubkeyKey(agentId)] ELSE card.publicKey

\* the key a write is verified under: the pinned one, or on a first write to
\* main the one in the card of the body; ENOENT when there is neither
WriteKey(kv, agentId, branchName, card) ==
    IF PubkeyKey(agentId) \in DOMAIN kv THEN kv[PubkeyKey(agentId)]
    ELSE IF branchName = MAIN THEN card.publicKey
    ELSE ENOENT

\* what is wrong with a signed request that is to be verified under keyField
\* at clock t: the status and text of the rejection, status 0 when nothing is
WriteAuth(request, keyField, t) ==
    LET h == request.headers
        key == parsePublicKeyField(keyField)
    IN  IF h.agentId = UNDEFINED \/ h.timestamp = UNDEFINED \/ h.signature = UNDEFINED
           \/ ParseInt(h.timestamp) = NaN
        THEN [status |-> 400, text |-> <<Str("Malformed request")>>]
        ELSE IF Stale(h.timestamp, t)
        THEN [status |-> 401, text |-> <<Str("Timestamp expired")>>]
        ELSE IF keyField = ENOENT
        THEN [status |-> 404, text |-> <<Str("Agent not found")>>]
        ELSE IF ~key.ok
        THEN [status |-> 400, text |-> <<Str("Malformed key")>>]
        ELSE IF ~verifySignature(key.v, CanonicalMessage(request), h.signature)
        THEN [status |-> 403, text |-> <<Str("Signature verification failed")>>]
        ELSE [status |-> 0, text |-> <<>>]

\* PUT /agent-card/branches/:branch at clock t
serverPut(kv, request, t) ==
    LET h == request.headers
        branchName == Slice(request.path, 1)
        body == JSONparse(request.body)
        card == JSONparse(body.v.card_json)
        keyField == WriteKey(kv, h.agentId, branchName, card.v)
        auth == WriteAuth(request, keyField, t)
        stored == (BranchKey(h.agentId, branchName) :>
                      [card_json |-> body.v.card_json, commit_hash |-> body.v.commit_hash])
                  @@ (PubkeyKey(h.agentId) :> keyField) @@ kv
    IN  IF request.body = UNDEFINED \/ ~body.ok \/ ~card.ok
        THEN Response(kv, 400, <<Str("Malformed request")>>)
        ELSE IF auth.status # 0 THEN Response(kv, auth.status, auth.text)
        ELSE Response(stored, 200, <<>>)

\* GET /agent-card/branches
serverList(kv, request, t) ==
    LET h == request.headers
        auth == WriteAuth(request, Lookup(kv, PubkeyKey(h.agentId)), t)
        names == SelectSeq(BranchNames, LAMBDA b : BranchKey(h.agentId, b) \in DOMAIN kv)
    IN  IF auth.status # 0 THEN Response(kv, auth.status, auth.text)
        ELSE Response(kv, 200,
                      <<Json([branches |-> [i \in 1..Len(names) |->
                                  [name |-> names[i],
                                   commit_hash |-> kv[BranchKey(h.agentId, names[i])].commit_hash]]])>>)

\* DELETE /agent-card/branches/:branch; main cannot be deleted
serverDelete(kv, request, t) ==
    LET h == request.headers
        branchName == Slice(request.path, 1)
        auth == WriteAuth(request, Lookup(kv, PubkeyKey(h.agentId)), t)
        key == BranchKey(h.agentId, branchName)
    IN  IF auth.status # 0 THEN Response(kv, auth.status, auth.text)
        ELSE IF branchName = MAIN THEN Response(kv, 400, <<Str("Cannot delete main")>>)
        ELSE IF key \notin DOMAIN kv THEN Response(kv, 404, <<Str("Branch not found")>>)
        ELSE Response([k \in DOMAIN kv \ {key} |-> kv[k]], 200, <<>>)

\* the message of a login: AGENT_ID, DOMAIN, TIMESTAMP joined by line breaks
LoginMessage(agentId, domain, timestamp) ==
    agentId \o <<NL>> \o domain \o <<NL, Num(timestamp)>>

\* a variant of the verification of a login that looks at the signature
\* before it looks at the clock
serverVerifySignatureFirst(kv, body, t) ==
    LET pinned == Lookup(kv, PubkeyKey(body.agent_id))
        key == parsePublicKeyField(pinned)
    IN  IF body.agent_id = UNDEFINED \/ body.domain = UNDEFINED \/ body.signature = UNDEFINED
        THEN Response(kv, 400, <<Str("Malformed request")>>)
        ELSE IF pinned = ENOENT \/ ~key.ok
        THEN Response(kv, 404, <<Str("Agent not found")>>)
        ELSE IF ~verifySignature(key.v,
                                 LoginMessage(body.agent_id, body.domain, body.timestamp),
                                 body.signature)
        THEN Response(kv, 403, <<Str("Signature verification failed")>>)
        ELSE IF Stale(<<Num(body.timestamp)>>, t)
        THEN Response(kv, 401, <<Str("Timestamp expired")>>)
        ELSE Response(kv, 200, <<Json([verified |-> TRUE])>>)

\* POST /agent-card/verify with body {agent_id, domain, timestamp, signature}
serverVerify(kv, body, t) ==
    LET pinned == Lookup(kv, PubkeyKey(body.agent_id))
        key == parsePublicKeyField(pinned)
    IN  IF body.agent_id = UNDEFINED \/ body.domain = UNDEFINED \/ body.signature = UNDEFINED
        THEN Response(kv, 400, <<Str("Malformed request")>>)
        ELSE IF Stale(<<Num(body.timestamp)>>, t)
        THEN Response(kv, 401, <<Str("Timestamp expired")>>)
        ELSE IF pinned = ENOENT \/ ~key.ok
        THEN Response(kv, 404, <<Str("Agent not found")>>)
        ELSE IF ~verifySignature(key.v,
                                 LoginMessage(body.agent_id, body.domain, body.timestamp),
                                 body.signature)
        THEN Response(kv, 403, <<Str("Signature verification failed")>>)
        ELSE Response(kv, 200,
                      <<Json([verified |-> TRUE, agent_id |-> body.agent_id,
                              domain |-> body.domain,
                              card |-> kv[BranchKey(body.agent_id, MAIN)].card_json])>>)

\* the key of the HMAC the service makes its challenges with
ServerSecret == <<Str("server-secret")>>

\* the token `${base64(payload)}.${base64(hmac)}` made with a secret
ChallengeToken(secret, payload) ==
    <<Tok("b64", payload), Str("."), Tok("hmac", [key |-> secret, msg |-> payload])>>

\* the challenge issued at clock t for a branch of an identifier
issueChallenge(agentId, branchName, t) ==
    ChallengeToken(ServerSecret, [nonce |-> t, agent_id |-> agentId, branch |-> branchName,
                                  exp |-> t + FiveMinutes])

\* the token is one the service made
IssuedHere(token) ==
    /\ Len(token) = 3
    /\ token[1].k = "b64"
    /\ token = ChallengeToken(ServerSecret, token[1].v)

\* a variant of the test of a challenge that does not look at what the
\* challenge was issued for
ChallengeFitsAny(token, agentId, branchName) == TRUE

\* the challenge was issued for this branch of this identifier
ChallengeFits(token, agentId, branchName) ==
    token[1].v.agent_id = agentId /\ token[1].v.branch = branchName

\* GET /.well-known/agent-card.json[?branch=NAME] on the host of an identifier
serverCard(kv, request, t) ==
    LET h == request.headers
        agentId == SubSeq(request.host, 2, Len(request.host) - 1)
        branchName == IF request.query = <<>> THEN MAIN ELSE Slice(request.query, 1)
        pinned == Lookup(kv, PubkeyKey(agentId))
        key == parsePublicKeyField(pinned)
        has == BranchKey(agentId, branchName) \in DOMAIN kv
        stored == kv[BranchKey(agentId, branchName)]
    IN  IF branchName = MAIN
        THEN IF ~has THEN Response(kv, 404, <<Str("Card not found")>>)
             ELSE Response(kv, 200, stored.card_json)
        ELSE IF h.challenge = UNDEFINED \/ h.signature = UNDEFINED
        THEN Response(kv, 401,
                      <<Json([challenge |-> issueChallenge(agentId, branchName, t),
                              expires |-> t + FiveMinutes])>>)
        ELSE IF ~IssuedHere(h.challenge)
        THEN Response(kv, 403, <<Str("Invalid challenge")>>)
        ELSE IF h.challenge[1].v.exp < t
        THEN Response(kv, 401, <<Str("Challenge expired")>>)
        ELSE IF ~ChallengeFits(h.challenge, agentId, branchName)
        THEN Response(kv, 403, <<Str("Challenge mismatch")>>)
        ELSE IF pinned = ENOENT \/ ~key.ok
        THEN Response(kv, 404, <<Str("Agent not found")>>)
        ELSE IF ~verifySignature(key.v, h.challenge, h.signature)
        THEN Response(kv, 403, <<Str("Signature verification failed")>>)
        ELSE IF ~has THEN Response(kv, 404, <<Str("Branch not found")>>)
        ELSE Response(kv, 200, stored.card_json)

\* the routes of the service
serverHandle(kv, request, t) ==
    IF request.host # API_BASE THEN serverCard(kv, request, t)
    ELSE IF request.method = <<Str("PUT")>> THEN serverPut(kv, request, t)
    ELSE IF request.method = <<Str("DELETE")>> THEN serverDelete(kv, request, t)
    ELSE serverList(kv, request, t)

(***************************************************************************)
(* remote.ts                                                               *)
(***************************************************************************)

\* createHash('sha256').update(data).digest('hex')
sha256Hex(data) == <<Tok("sha256hex", data)>>

\* encodeURIComponent: a space and a line break are escaped, the characters
\* of the names of the model are not
encodeURIComponent(t) ==
    [i \in 1..Len(t) |-> IF t[i] = SP THEN Str("%20")
                         ELSE IF t[i] = NL THEN Str("%0A") ELSE t[i]]

\* the identifier of the store, which its card URL shows to any host
StrangerKnows(d) == IF d.identity.id = ENOENT THEN <<>> ELSE Trim(d.identity.id)

\* what the network makes of a request: the service answers it ("server"),
\* something on the way answers 200 or refuses it, or no answer arrives and
\* fetch throws
Fetch(d, request, answer, t) ==
    CASE answer = "server" ->
             LET r == serverHandle(d.server, request, t)
             IN  [thrown |-> FALSE, status |-> r.status, text |-> r.text,
                  d |-> [d EXCEPT !.server = r.kv]]
      [] answer = "ok" ->
             [thrown |-> FALSE, status |-> 200, text |-> <<>>, d |-> d]
      [] answer = "rejected" ->
             [thrown |-> FALSE, status |-> 500, text |-> <<Str("Internal"), SP, Str("error")>>,
              d |-> d]
      [] answer = "unauthorized" ->
             [thrown |-> FALSE, status |-> 401,
              text |-> <<Json([challenge |-> ChallengeToken(<<Str("gateway")>>,
                                                 [nonce |-> t, agent_id |-> <<>>,
                                                  branch |-> <<>>, exp |-> t + FiveMinutes]),
                               expires |-> t + FiveMinutes])>>,
              d |-> d]
      [] answer = "asks for a delete" ->
             [thrown |-> FALSE, status |-> 401,
              text |-> <<Json([challenge |-> Join(<<(<<Str("DELETE")>>),
                                                    <<Str("/agent-card/branches/")>>
                                                        \o encodeURIComponent(FAAM),
                                                    StrangerKnows(d), <<Num(t)>>>>),
                               expires |-> t + FiveMinutes])>>,
              d |-> d]
      [] answer = "asks for a login" ->
             [thrown |-> FALSE, status |-> 401,
              text |-> <<Json([challenge |-> LoginMessage(StrangerKnows(d),
                                                          <<Str("discord.com")>>, t),
                               expires |-> t + FiveMinutes])>>,
              d |-> d]
      [] OTHER ->
             [thrown |-> TRUE, status |-> 0, text |-> <<>>, d |-> d]

\* res.ok
ResOk(res) == res.status >= 200 /\ res.status <= 299

\* a variant of buildAuthHeaders that signs a message without the path
buildAuthHeadersNoPath(d, method, path, body, t) ==
    LET agentId == loadAgentId(d)
        timestamp == <<Num(t)>>
        message == Join(<<method, agentId.v, timestamp>>)
                       \o (IF body # UNDEFINED THEN <<NL>> \o sha256Hex(body) ELSE <<>>)
        signature == signMessage(d, message)
    IN  IF ~agentId.ok THEN agentId
        ELSE IF ~signature.ok THEN signature
        ELSE Return([agentId |-> agentId.v, timestamp |-> timestamp,
                     signature |-> signature.v, challenge |-> UNDEFINED])

\* t is Math.floor(Date.now() / 1000)
buildAuthHeaders(d, method, path, body, t) ==
    LET agentId == loadAgentId(d)
        timestamp == <<Num(t)>>
        message == Join(<<method, path, agentId.v, timestamp>>)
                       \o (IF body # UNDEFINED THEN <<NL>> \o sha256Hex(body) ELSE <<>>)
        signature == signMessage(d, message)
    IN  IF ~agentId.ok THEN agentId
        ELSE IF ~signature.ok THEN signature
        ELSE Return([agentId |-> agentId.v, timestamp |-> timestamp,
                     signature |-> signature.v, challenge |-> UNDEFINED])

\* the request of an operation that sent none
NoRequest == Request(<<>>, <<>>, <<>>, <<>>, NoHeaders, UNDEFINED)

\* the PushResult, with the cardJson pushBranch was given, whether it sent a
\* request, and the request
PushResult(branchName, commitHash, success, error, cardJson, sent, request) ==
    [branch |-> branchName, commitHash |-> commitHash, success |-> success,
     error |-> error, cardJson |-> cardJson, sent |-> sent, request |-> request]

\* pushBranch returns [d, result]: the service may have stored the branch
pushBranch(d, remoteName, branchName, cardJson, commitHash, answer, t) ==
    LET path == <<Str("/agent-card/branches/")>> \o encodeURIComponent(branchName)
        body == <<Json([card_json |-> cardJson, commit_hash |-> commitHash])>>
        \* the result, from the request that was sent and the response to it
        Answered(request, res) ==
            IF res.thrown
            THEN [d |-> d,
                  result |-> PushResult(branchName, commitHash, FALSE,
                                        ErrMessage("fetch failed"), cardJson, TRUE, request)]
            ELSE IF ~ResOk(res)
            THEN [d |-> res.d,
                  result |-> PushResult(branchName, commitHash, FALSE,
                                        <<Str("HTTP"), SP, Num(res.status), Str(":"), SP>>
                                            \o res.text,
                                        cardJson, TRUE, request)]
            ELSE [d |-> res.d,
                  result |-> PushResult(branchName, commitHash, TRUE, UNDEFINED, cardJson,
                                        TRUE, request)]
        Sent(request) == Answered(request, Fetch(d, request, answer, t))
        \* the try block, from the headers on
        Signed(authHeaders) ==
            IF ~authHeaders.ok
            THEN [d |-> d,
                  result |-> PushResult(branchName, commitHash, FALSE,
                                        ErrMessage(authHeaders.err), cardJson, FALSE,
                                        NoRequest)]
            ELSE Sent(Request(<<Str("PUT")>>, API_BASE, path, <<>>, authHeaders.v, body))
    IN  Signed(buildAuthHeaders(d, <<Str("PUT")>>, path, body, t))

\* a request that was sent, with the status and the text of its answer
\* (status 0 when none arrived)
Exchange(request, res) == [request |-> request, status |-> res.status, text |-> res.text]

\* what list, delete and fetch leave: the value returned, or the message of
\* the error thrown (err names its kind), and the requests that were sent
RemoteDone(d, err, v, sent) == Done(Run(d, Forever), err, [v |-> v, sent |-> sent])

listRemoteBranches(d, remoteName, answer, t) ==
    LET path == <<Str("/agent-card/branches")>>
        \* from the parsed body of the response on
        Parsed(sent, res, data) ==
            IF ~data.ok
            THEN RemoteDone(res.d, "SyntaxError", ErrMessage("Unexpected end of JSON input"),
                            sent)
            ELSE RemoteDone(res.d, "",
                            [i \in 1..Len(data.v.branches) |-> data.v.branches[i].name], sent)
        Answered(sent, res) ==
            IF res.thrown
            THEN RemoteDone(d, "NetworkError", ErrMessage("fetch failed"), sent)
            ELSE IF ~ResOk(res)
            THEN RemoteDone(res.d, "RemoteError",
                            <<Str("Failed to list remote branches: HTTP"), SP, Num(res.status)>>,
                            sent)
            ELSE Parsed(sent, res, JSONparse(res.text))
        Received(request, res) == Answered(<<Exchange(request, res)>>, res)
        Sent(request) == Received(request, Fetch(d, request, answer, t))
        Signed(authHeaders) ==
            IF ~authHeaders.ok
            THEN RemoteDone(d, "NoIdentity", ErrMessage(authHeaders.err), <<>>)
            ELSE Sent(Request(<<Str("GET")>>, API_BASE, path, <<>>, authHeaders.v, UNDEFINED))
    IN  Signed(buildAuthHeaders(d, <<Str("GET")>>, path, UNDEFINED, t))

deleteRemoteBranch(d, remoteName, branchName, answer, t) ==
    LET path == <<Str("/agent-card/branches/")>> \o encodeURIComponent(branchName)
        Answered(sent, res) ==
            IF res.thrown
            THEN RemoteDone(d, "NetworkError", ErrMessage("fetch failed"), sent)
            ELSE RemoteDone(res.d, "", ResOk(res), sent)
        Received(request, res) == Answered(<<Exchange(request, res)>>, res)
        Sent(request) == Received(request, Fetch(d, request, answer, t))
        Signed(authHeaders) ==
            IF ~authHeaders.ok
            THEN RemoteDone(d, "NoIdentity", ErrMessage(authHeaders.err), <<>>)
            ELSE Sent(Request(<<Str("DELETE")>>, API_BASE, path, <<>>, authHeaders.v,
                              UNDEFINED))
    IN  Signed(buildAuthHeaders(d, <<Str("DELETE")>>, path, UNDEFINED, t))

\* a variant of fetchBranchCard that answers every 401 with a signed request
fetchBranchCardSignsMain(d, cardUrl, branchName, hasNitDir, answers, t, t2) ==
    LET path == <<Str("/.well-known/agent-card.json")>>
        query == IF branchName # MAIN
                 THEN <<Str("?branch=")>> \o encodeURIComponent(branchName) ELSE <<>>
        request == Request(<<Str("GET")>>, cardUrl, path, query, NoHeaders, UNDEFINED)
        \* from the parsed body of the second response on
        AuthParsed(sent, authRes, authCard) ==
            IF ~authCard.ok
            THEN RemoteDone(authRes.d, "SyntaxError",
                            ErrMessage("Unexpected end of JSON input"), sent)
            ELSE RemoteDone(authRes.d, "", authCard.v, sent)
        AuthAnswered(res, sent, authRes) ==
            IF authRes.thrown
            THEN RemoteDone(res.d, "NetworkError", ErrMessage("fetch failed"), sent)
            ELSE IF ~ResOk(authRes)
            THEN RemoteDone(authRes.d, "RemoteError",
                            <<Str("Failed to fetch branch"), SP, Str("\"")>> \o branchName
                                \o <<Str("\""), SP, Str("after challenge: HTTP"), SP,
                                     Num(authRes.status), SP>> \o authRes.text,
                            sent)
            ELSE AuthParsed(sent, authRes, JSONparse(authRes.text))
        AuthReceived(res, first, authRequest, authRes) ==
            AuthAnswered(res, first \o <<Exchange(authRequest, authRes)>>, authRes)
        AuthSent(res, first, authRequest) ==
            AuthReceived(res, first, authRequest, Fetch(res.d, authRequest, answers[2], t2))
        \* from the signature of the challenge on
        ChallengeSigned(res, first, challengeData, signature) ==
            IF ~signature.ok
            THEN RemoteDone(res.d, "NoIdentity", ErrMessage(signature.err), first)
            ELSE AuthSent(res, first,
                          Request(<<Str("GET")>>, cardUrl, path, query,
                                  [NoHeaders EXCEPT !.challenge = challengeData.v.challenge,
                                                    !.signature = signature.v],
                                  UNDEFINED))
        Challenged(res, first, challengeData) ==
            IF ~challengeData.ok
            THEN RemoteDone(res.d, "SyntaxError",
                            ErrMessage("Unexpected end of JSON input"), first)
            ELSE ChallengeSigned(res, first, challengeData,
                                 signChallenge(d, challengeData.v.challenge))
        Parsed(res, first, card) ==
            IF ~card.ok
            THEN RemoteDone(res.d, "SyntaxError",
                            ErrMessage("Unexpected end of JSON input"), first)
            ELSE RemoteDone(res.d, "", card.v, first)
        Answered(res, first) ==
            IF res.thrown
            THEN RemoteDone(d, "NetworkError", ErrMessage("fetch failed"), first)
            ELSE IF ResOk(res) THEN Parsed(res, first, JSONparse(res.text))
            ELSE IF res.status = 401
            THEN IF ~hasNitDir
                 THEN RemoteDone(res.d, "AuthRequired",
                                 <<Str("Branch"), SP, Str("\"")>> \o branchName
                                     \o <<Str("\""), SP,
                                          Str("requires authentication. Provide nitDir for signing.")>>,
                                 first)
                 ELSE Challenged(res, first, JSONparse(res.text))
            ELSE RemoteDone(res.d, "RemoteError",
                            <<Str("Failed to fetch card: HTTP"), SP, Num(res.status)>>, first)
        Received(res) == Answered(res, <<Exchange(request, res)>>)
    IN  Received(Fetch(d, request, answers[1], t))

\* hasNitDir: the caller gave the nitDir to sign with; t and t2 are the
\* clock of the service at the first and at the second request
fetchBranchCard(d, cardUrl, branchName, hasNitDir, answers, t, t2) ==
    LET path == <<Str("/.well-known/agent-card.json")>>
        query == IF branchName # MAIN
                 THEN <<Str("?branch=")>> \o encodeURIComponent(branchName) ELSE <<>>
        request == Request(<<Str("GET")>>, cardUrl, path, query, NoHeaders, UNDEFINED)
        \* from the parsed body of the second response on
        AuthParsed(sent, authRes, authCard) ==
            IF ~authCard.ok
            THEN RemoteDone(authRes.d, "SyntaxError",
                            ErrMessage("Unexpected end of JSON input"), sent)
            ELSE RemoteDone(authRes.d, "", authCard.v, sent)
        AuthAnswered(res, sent, authRes) ==
            IF authRes.thrown
            THEN RemoteDone(res.d, "NetworkError", ErrMessage("fetch failed"), sent)
            ELSE IF ~ResOk(authRes)
            THEN RemoteDone(authRes.d, "RemoteError",
                            <<Str("Failed to fetch branch"), SP, Str("\"")>> \o branchName
                                \o <<Str("\""), SP, Str("after challenge: HTTP"), SP,
                                     Num(authRes.status), SP>> \o authRes.text,
                            sent)
            ELSE AuthParsed(sent, authRes, JSONparse(authRes.text))
        AuthReceived(res, first, authRequest, authRes) ==
            AuthAnswered(res, first \o <<Exchange(authRequest, authRes)>>, authRes)
        AuthSent(res, first, authRequest) ==
            AuthReceived(res, first, authRequest, Fetch(res.d, authRequest, answers[2], t2))
        \* from the signature of the challenge on
        ChallengeSigned(res, first, challengeData, signature) ==
            IF ~signature.ok
            THEN RemoteDone(res.d, "NoIdentity", ErrMessage(signature.err), first)
            ELSE AuthSent(res, first,
                          Request(<<Str("GET")>>, cardUrl, path, query,
                                  [NoHeaders EXCEPT !.challenge = challengeData.v.challenge,
                                                    !.signature = signature.v],
                                  UNDEFINED))
        Challenged(res, first, challengeData) ==
            IF ~challengeData.ok
            THEN RemoteDone(res.d, "SyntaxError",
                            ErrMessage("Unexpected end of JSON input"), first)
            ELSE ChallengeSigned(res, first, challengeData,
                                 signChallenge(d, challengeData.v.challenge))
        Parsed(res, first, card) ==
            IF ~card.ok
            THEN RemoteDone(res.d, "SyntaxError",
                            ErrMessage("Unexpected end of JSON input"), first)
            ELSE RemoteDone(res.d, "", card.v, first)
        Answered(res, first) ==
            IF res.thrown
            THEN RemoteDone(d, "NetworkError", ErrMessage("fetch failed"), first)
            ELSE IF ResOk(res) THEN Parsed(res, first, JSONparse(res.text))
            ELSE IF res.status = 401 /\ branchName # MAIN
            THEN IF ~hasNitDir
                 THEN RemoteDone(res.d, "AuthRequired",
                                 <<Str("Branch"), SP, Str("\"")>> \o branchName
                                     \o <<Str("\""), SP,
                                          Str("requires authentication. Provide nitDir for signing.")>>,
                                 first)
                 ELSE Challenged(res, first, JSONparse(res.text))
            ELSE RemoteDone(res.d, "RemoteError",
                            <<Str("Failed to fetch card: HTTP"), SP, Num(res.status)>>, first)
        Received(res) == Answered(res, <<Exchange(request, res)>>)
    IN  Received(Fetch(d, request, answers[1], t))

(***************************************************************************)
(* index.ts: push                                                          *)
(***************************************************************************)

\* a variant of the for loop of push that gives up at the first branch that
\* fails
RECURSIVE pushLoopStop(_, _, _, _, _, _, _)
pushLoopStop(m, remoteName, toPush, i, answers, t, results) ==
    IF i > Len(toPush) THEN Done(m, "", results)
    ELSE LET b == toPush[i]
             commitRaw == readObject(m.d, b.commitHash)
             c == parseCommit(b.commitHash, commitRaw.v)
             cardJson == readObject(m.d, c.v.card)
             pushed == pushBranch(m.d, remoteName, b.name, cardJson.v, b.commitHash,
                                  answers[b.name], t)
             m0 == [m EXCEPT !.d = pushed.d]
             m1 == IF pushed.result.success
                   THEN setRemoteRef(m0, remoteName, b.name, b.commitHash) ELSE m0
         IN  IF ~commitRaw.ok THEN Done(m, commitRaw.err, results)
             ELSE IF ~c.ok THEN Done(m, c.err, results)
             ELSE IF ~cardJson.ok THEN Done(m, cardJson.err, results)
             ELSE IF ~pushed.result.success THEN Done(m1, "", Append(results, pushed.result))
             ELSE pushLoopStop(m1, remoteName, toPush, i + 1, answers, t,
                               Append(results, pushed.result))

\* the for loop of push over toPush from index i on; answers says, for each
\* branch name, what the network makes of its PUT
RECURSIVE pushLoop(_, _, _, _, _, _, _)
pushLoop(m, remoteName, toPush, i, answers, t, results) ==
    IF i > Len(toPush) THEN Done(m, "", results)
    ELSE LET b == toPush[i]
             \* the rest of the loop, from the result of pushBranch on
             Pushed(pushed) ==
                 pushLoop(IF pushed.result.success
                          THEN setRemoteRef([m EXCEPT !.d = pushed.d], remoteName, b.name,
                                            b.commitHash)
                          ELSE [m EXCEPT !.d = pushed.d],
                          remoteName, toPush, i + 1, answers, t,
                          Append(results, pushed.result))
             CardRead(cardJson) ==
                 IF ~cardJson.ok THEN Done(m, cardJson.err, results)
                 ELSE Pushed(pushBranch(m.d, remoteName, b.name, cardJson.v, b.commitHash,
                                        answers[b.name], t))
             Parsed(c) ==
                 IF ~c.ok THEN Done(m, c.err, results)
                 ELSE CardRead(readObject(m.d, c.v.card))
             CommitRead(commitRaw) ==
                 IF ~commitRaw.ok THEN Done(m, commitRaw.err, results)
                 ELSE Parsed(parseCommit(b.commitHash, commitRaw.v))
         IN  CommitRead(readObject(m.d, b.commitHash))

push(D, all, answers, fuel, t) ==
    LET m0 == Run(D, fuel)
        branches == listBranches(D)
        currentBranch == getCurrentBranch(D)
        toPush == IF all THEN branches
                  ELSE SelectSeq(branches, LAMBDA b : b.name = currentBranch.v)
    IN  IF ~D.nitDir THEN Done(m0, "NotARepository", <<>>)
        ELSE IF ~currentBranch.ok THEN Done(m0, currentBranch.err, <<>>)
        ELSE IF Len(toPush) = 0 THEN Done(m0, "NoBranches", <<>>)
        ELSE pushLoop(m0, ORIGIN, toPush, 1, answers, t, <<>>)

(***************************************************************************)
(* The state machine                                                       *)
(***************************************************************************)

\* the public-key field of the store's identity
PublicKeyField == formatPublicKeyField(Trim(identity.pub))

\* the working document, when it can be read
WorkingCard == readWorkingCard(Disk)

CommitObjects == {h \in DOMAIN objects : h[1].v.type = "commit"}

Messages == { <<Str("msg")>> }

LogCounts == { <<>>, <<1>>, <<2>> }

DiffTargets == { <<>>, MAIN, FAAM, <<Str("nope")>> } \cup CommitObjects

\* Two callers of writeObject (objects.ts 30-50) that run at the same time,
\* each at one of its awaited calls: fs.access, fs.mkdir, fs.writeFile
\* (opening the file for writing truncates it, then the bytes are written).
Writers == {1, 2}

\* wrote: the call went past the fs.access check and wrote the file itself
Idle == [pc |-> "idle", type |-> "", content |-> <<>>, ret |-> <<>>, err |-> "",
         wrote |-> FALSE]

WriteInputs ==
    { [type |-> "card",   content |-> <<Str("a")>>],
      [type |-> "card",   content |-> <<Str("b")>>],
      [type |-> "commit", content |-> <<Str("a")>>] }

\* the disk an operation leaves, and what it answered
Outcome(r, op, arg, ph) ==
    /\ nitDir' = r.d.nitDir
    /\ objects' = r.d.objects
    /\ heads' = r.d.heads
    /\ headFile' = r.d.headFile
    /\ remotes' = r.d.remotes
    /\ workFile' = r.d.workFile
    /\ identity' = r.d.identity
    /\ server' = r.d.server
    /\ last' = [op |-> op, arg |-> arg, err |-> r.err, ret |-> r.ret]
    /\ phase' = ph
    /\ writers' = writers

Init ==
    /\ nitDir = FALSE
    /\ objects = EmptyMap
    /\ heads = EmptyMap
    /\ headFile = ENOENT
    /\ remotes = EmptyMap
    /\ workFile \in {ENOENT} \cup {JSONstringify(c) \o <<NL>> : c \in InitialDocs}
    /\ identity = [pub |-> ENOENT, key |-> ENOENT, id |-> ENOENT]
    /\ server = EmptyMap
    /\ now = 0
    /\ last = [op |-> "none", arg |-> <<>>, err |-> "", ret |-> <<>>]
    /\ phase = "none"
    /\ writers = [p \in Writers |-> Idle]

\* the clock advances
Tick ==
    /\ now < MaxTime
    /\ now' = now + 1
    /\ last' = [op |-> "tick", arg |-> <<>>, err |-> "", ret |-> <<>>]
    /\ UNCHANGED <<diskVars, phase, writers>>

\* the user edits one scalar field, the description, of the working document
EditField ==
    /\ nitDir
    /\ WorkingCard.ok
    /\ LET description == IF WorkingCard.v.description = D1 THEN D0 ELSE D1
       IN  workFile' = JSONstringify([WorkingCard.v EXCEPT !.description = description])
                           \o <<NL>>
    /\ last' = [op |-> "edit", arg |-> <<>>, err |-> "", ret |-> <<>>]
    /\ phase' = IF phase = "inited" THEN "edited" ELSE "none"
    /\ UNCHANGED <<nitDir, objects, heads, headFile, remotes, identity, server, now, writers>>

\* the user adds a key outside the card schema to the working document, or
\* takes it away again
EditExtra ==
    /\ nitDir
    /\ WorkingCard.ok
    /\ LET extra == IF WorkingCard.v.extra = UNDEFINED THEN <<Str("x")>> ELSE UNDEFINED
       IN  workFile' = JSONstringify([WorkingCard.v EXCEPT !.extra = extra]) \o <<NL>>
    /\ last' = [op |-> "edit", arg |-> <<>>, err |-> "", ret |-> <<>>]
    /\ phase' = "none"
    /\ UNCHANGED <<nitDir, objects, heads, headFile, remotes, identity, server, now, writers>>

InitAction ==
    /\ Outcome(init(Disk, Forever, now), "init", <<>>,
               IF nitDir THEN phase ELSE "inited")
    /\ UNCHANGED now

CommitAction ==
    \E message \in Messages :
        LET r == commit(Disk, message, Forever, now, now)
        IN  /\ r.err # "" \/ Cardinality(CommitObjects) < MaxCommits
            /\ Outcome(r, "commit", message,
                       IF r.err = "" /\ phase = "edited" THEN "committed"
                       ELSE IF r.err = "NoChanges" THEN phase
                       ELSE "none")
            /\ UNCHANGED now

\* a commit during which the clock moves on to the next second: Date.now()
\* is read once for the stored commit and once more for the result
CommitAcrossTick ==
    \E message \in Messages :
        LET Committed(r) ==
                /\ r.err # "" \/ Cardinality(CommitObjects) < MaxCommits
                /\ Outcome(r, "commit", message,
                           IF r.err = "" /\ phase = "edited" THEN "committed"
                           ELSE IF r.err = "NoChanges" THEN phase
                           ELSE "none")
        IN  /\ now < MaxTime
            /\ Committed(commit(Disk, message, Forever, now, now + 1))
            /\ now' = now + 1

LogAction ==
    /\ \E count \in LogCounts : Outcome(log(Disk, count), "log", count, phase)
    /\ UNCHANGED now

DiffAction ==
    /\ \E target \in DiffTargets : Outcome(diff(Disk, target), "diff", target, phase)
    /\ UNCHANGED now

StatusAction ==
    /\ Outcome(status(Disk), "status", <<>>, phase)
    /\ UNCHANGED now

BranchAction ==
    /\ \E name \in {<<>>, MAIN, FAAM} :
          Outcome(branch(Disk, name, Forever), "branch", name,
                  IF Truthy(name) THEN "none" ELSE phase)
    /\ UNCHANGED now

CheckoutAction ==
    /\ \E branchName \in {MAIN, FAAM} :
          Outcome(checkout(Disk, branchName, Forever), "checkout", branchName, "none")
    /\ UNCHANGED now

\* the remote takes the PUT of the branches in accepted and refuses the others
Script(accepted) == [b \in {MAIN, FAAM} |-> IF b \in accepted THEN "ok" ELSE "rejected"]

PushAction ==
    /\ \E all \in BOOLEAN, accepted \in {{}, {MAIN}, {MAIN, FAAM}} :
          Outcome(push(Disk, all, Script(accepted), Forever, now), "push", <<>>, "none")
    /\ UNCHANGED now

\* what the network may make of the PUT of each branch
Answers == [{MAIN, FAAM} -> {"ok", "rejected", "unreachable"}]

\* a push over a network that may fail
PushAnswers ==
    /\ \E all \in BOOLEAN, answers \in Answers :
          Outcome(push(Disk, all, answers, Forever, now), "push",
                  [all |-> all, answers |-> answers], "none")
    /\ UNCHANGED now

\* a push that reaches the service
PushServer ==
    /\ \E all \in BOOLEAN :
          Outcome(push(Disk, all, [b \in {MAIN, FAAM} |-> "server"], Forever, now), "push",
                  [all |-> all, answers |-> [b \in {MAIN, FAAM} |-> "server"]], "none")
    /\ UNCHANGED now

\* what the network may make of a request of list, delete or fetch
RemoteAnswers == {"server", "rejected", "unauthorized", "unreachable"}

ListAction ==
    /\ \E answer \in RemoteAnswers :
          Outcome(listRemoteBranches(Disk, ORIGIN, answer, now), "list",
                  [answer |-> answer], phase)
    /\ UNCHANGED now

DeleteAction ==
    /\ \E branchName \in {MAIN, FAAM}, answer \in RemoteAnswers :
          Outcome(deleteRemoteBranch(Disk, ORIGIN, branchName, answer, now), "delete",
                  [branch |-> branchName, answer |-> answer], phase)
    /\ UNCHANGED now

\* the card URL of the identifier of the first key; the second request
\* reaches the service at once, or after the challenge has expired
FetchCardAction ==
    /\ \E branchName \in {MAIN, FAAM}, hasNitDir \in BOOLEAN, late \in BOOLEAN,
          answers \in [1..2 -> RemoteAnswers] :
          Outcome(fetchBranchCard(Disk,
                                  CardUrl(deriveAgentId(formatPublicKeyField(<<Str("k1")>>))),
                                  branchName, hasNitDir, answers, now,
                                  IF late THEN now + FiveMinutes + 1 ELSE now),
                  "fetch",
                  [branch |-> branchName, hasNitDir |-> hasNitDir, answers |-> answers,
                   late |-> late],
                  phase)
    /\ UNCHANGED now

\* the card URL is that of a host that answers the first request with a
\* challenge of its own choice: the text of a signed DELETE of the branch
\* faam.io, or the text of a login
FetchFromStranger ==
    /\ \E ask \in {"asks for a delete", "asks for a login"} :
          Outcome(fetchBranchCard(Disk,
                                  CardUrl(deriveAgentId(formatPublicKeyField(<<Str("k1")>>))),
                                  FAAM, TRUE, [i \in 1..2 |-> IF i = 1 THEN ask ELSE "rejected"],
                                  now, now),
                  "fetch",
                  [branch |-> FAAM, hasNitDir |-> TRUE,
                   answers |-> [i \in 1..2 |-> IF i = 1 THEN ask ELSE "rejected"],
                   late |-> FALSE],
                  phase)
    /\ UNCHANGED now

\* The service and its clients.  A client is a store as generateKeypair and
\* saveAgentId leave it: the two halves of a key, and the identifier it
\* claims, which is the one derived from its key or that of the other key.
Keys == {<<Str("k1")>>, <<Str("k2")>>}

IdOf(key) == deriveAgentId(formatPublicKeyField(key))

ClientDisk(key, claimed) ==
    [Disk EXCEPT !.identity = [pub |-> key \o <<NL>>, key |-> PrivateOf(key) \o <<NL>>,
                               id |-> claimed \o <<NL>>]]

\* a request arrives when it was signed, five minutes later, or later still
Delays == {0, FiveMinutes, FiveMinutes + 1}

\* what the service did and answered
Served(r, op, arg) ==
    /\ server' = r.kv
    /\ last' = [op |-> op, arg |-> arg, err |-> "", ret |-> [status |-> r.status, text |-> r.text]]
    /\ UNCHANGED <<nitDir, objects, heads, headFile, remotes, workFile, identity, now, phase,
                   writers>>

\* a client with a key signs the PUT of a branch under a claimed identifier,
\* with a card that embeds a key, as pushBranch does
PutAction ==
    \E key \in Keys, claimedKey \in Keys, cardKey \in Keys, branchName \in {MAIN, FAAM},
       delay \in {0, FiveMinutes + 1} :
        LET d == ClientDisk(key, IdOf(claimedKey))
            path == <<Str("/agent-card/branches/")>> \o encodeURIComponent(branchName)
            cardJson == JSONstringify(Card(D0, formatPublicKeyField(cardKey), <<>>, UNDEFINED))
            body == <<Json([card_json |-> cardJson, commit_hash |-> hashObject("commit", cardJson)])>>
            authHeaders == buildAuthHeaders(d, <<Str("PUT")>>, path, body, now)
            request == Request(<<Str("PUT")>>, API_BASE, path, <<>>, authHeaders.v, body)
        IN  Served(serverHandle(server, request, now + delay), "put",
                   [key |-> key, agentId |-> IdOf(claimedKey), cardKey |-> cardKey,
                    branch |-> branchName, delay |-> delay])

\* the domains of two apps
Domains == {<<Str("faam.io")>>, <<Str("discord.com")>>}

\* a client signs a login for one domain and presents it for a domain
LoginAction ==
    \E key \in Keys, signedFor \in Domains, presentedFor \in Domains, delay \in Delays :
        LET d == ClientDisk(key, IdOf(key))
            agentId == loadAgentId(d)
            signature == signMessage(d, LoginMessage(agentId.v, signedFor, now))
            body == [agent_id |-> agentId.v, domain |-> presentedFor, timestamp |-> now,
                     signature |-> signature.v]
        IN  Served(serverVerify(server, body, now + delay), "login",
                   [key |-> key, agentId |-> agentId.v, signedFor |-> signedFor,
                    presentedFor |-> presentedFor, delay |-> delay, body |-> body])

\* a client asks for the faam.io snapshot of the identifier of the first
\* key: with no challenge, with one the service issued now for a branch of
\* an identifier, or with one made with another secret, signed with a key;
\* the request arrives at once or after the challenge has expired
GetAction ==
    \E key \in Keys, boundTo \in Keys, boundBranch \in {MAIN, FAAM},
       kind \in {"none", "issued", "forged"}, late \in BOOLEAN :
        LET t == IF late THEN now + FiveMinutes + 1 ELSE now
            issued == issueChallenge(IdOf(boundTo), boundBranch, now)
            challenge == IF kind = "issued" THEN issued
                         ELSE ChallengeToken(<<Str("gateway")>>, issued[1].v)
            signature == signChallenge(ClientDisk(key, IdOf(key)), challenge)
            headers == IF kind = "none" THEN NoHeaders
                       ELSE [NoHeaders EXCEPT !.challenge = challenge,
                                              !.signature = signature.v]
            request == Request(<<Str("GET")>>, CardUrl(IdOf(<<Str("k1")>>)),
                               <<Str("/.well-known/agent-card.json")>>,
                               <<Str("?branch=")>> \o encodeURIComponent(FAAM), headers,
                               UNDEFINED)
        IN  Served(serverHandle(server, request, t), "get",
                   [agentId |-> IdOf(<<Str("k1")>>), branch |-> FAAM, carries |-> kind # "none",
                    challenge |-> challenge, signature |-> signature.v, t |-> t])

\* the identifier derived from the public key is saved
SaveAgentId ==
    /\ identity.pub # ENOENT
    /\ identity.id = ENOENT
    /\ Outcome(saveAgentId(Disk, deriveAgentId(formatPublicKeyField(Trim(identity.pub))),
                            Forever),
               "saveAgentId", <<>>, phase)
    /\ UNCHANGED now

\* the process dies during init, after fuel calls of the file system
CrashInit ==
    /\ \E fuel \in 0..(MaxFuel - 1) :
          LET Died(r) == /\ r.crashed
                         /\ Outcome([r EXCEPT !.err = "crashed"], "init", <<>>, "none")
          IN  Died(init(Disk, fuel, now))
    /\ UNCHANGED now

\* fs.writeFile rejects for one half of the keypair: generateKeypair throws
\* at that call, and init, which does not catch, throws with it
KeypairWriteFails ==
    /\ \E half \in {"agent.pub", "agent.key"} :
          LET Threw(r) ==
                  /\ r.crashed
                  /\ Outcome([r EXCEPT !.err = "WriteFailed"], "generateKeypair", half, "none")
          IN  Threw(init(Disk, IF half = "agent.pub" THEN 1 ELSE 2, now))
    /\ UNCHANGED now

\* the process dies during commit
CrashCommit ==
    /\ \E message \in Messages, fuel \in 0..(MaxFuel - 1) :
          LET Died(r) == /\ r.crashed
                         /\ Outcome([r EXCEPT !.err = "crashed"], "commit", message, "none")
          IN  Died(commit(Disk, message, fuel, now, now))
    /\ UNCHANGED now

\* something outside the program removes the file of one commit object from a
\* store whose parent links are all whole
LoseObject ==
    /\ \A c \in CommitObjects :
          LET parent == parseCommit(c, objects[c]).v.parent
          IN  Truthy(parent) => parent \in DOMAIN objects
    /\ \E h \in CommitObjects :
          objects' = [x \in DOMAIN objects \ {h} |-> objects[x]]
    /\ last' = [op |-> "lose", arg |-> <<>>, err |-> "", ret |-> <<>>]
    /\ phase' = "none"
    /\ UNCHANGED <<nitDir, heads, headFile, remotes, workFile, identity, server, now, writers>>

\* something outside the program leaves HEAD without its "ref: " prefix, or
\* the working document cut off in the middle
Damage ==
    /\ nitDir
    /\ \E file \in {"HEAD", "agent-card.json"} :
          /\ IF file = "HEAD"
             THEN /\ getHead(Disk).ok
                  /\ headFile' = Slice(headFile, 2)
                  /\ workFile' = workFile
             ELSE /\ WorkingCard.ok
                  /\ workFile' = <<Str("{")>>
                  /\ headFile' = headFile
          /\ last' = [op |-> "damage", arg |-> file, err |-> "", ret |-> <<>>]
    /\ phase' = "none"
    /\ UNCHANGED <<nitDir, objects, heads, remotes, identity, server, now, writers>>

\* a caller enters writeObject(nitDir, type, content)
StartWrite(p) ==
    /\ writers[p].pc = "idle"
    /\ \E in \in WriteInputs :
          writers' = [writers EXCEPT ![p] =
              [pc |-> "access", type |-> in.type, content |-> in.content,
               ret |-> <<>>, err |-> "", wrote |-> FALSE]]
    /\ last' = [op |-> "writeObject", arg |-> <<>>, err |-> "", ret |-> <<>>]
    /\ UNCHANGED <<diskVars, now, phase>>

\* try { await fs.access(file); return hex } catch { }
AccessStep(p) ==
    /\ writers[p].pc = "access"
    /\ LET hex == hashObject(writers[p].type, writers[p].content)
       IN  writers' = [writers EXCEPT ![p] =
               IF fsAccess(Disk, ObjectPath(hex))
               THEN [@ EXCEPT !.pc = "done", !.ret = hex]
               ELSE [@ EXCEPT !.pc = "mkdir"]]
    /\ last' = [op |-> "writeObject", arg |-> <<>>, err |-> "", ret |-> <<>>]
    /\ UNCHANGED <<diskVars, now, phase>>

\* await fs.mkdir(dir, { recursive: true }): makes the missing directories of
\* the path, the store's own included, and succeeds when they are there
MkdirStep(p) ==
    /\ writers[p].pc = "mkdir"
    /\ writers' = [writers EXCEPT ![p].pc = "open"]
    /\ nitDir' = TRUE
    /\ last' = [op |-> "writeObject", arg |-> <<>>, err |-> "", ret |-> <<>>]
    /\ UNCHANGED <<objects, heads, headFile, remotes, workFile, identity, server, now, phase>>

\* fs.writeFile(file, content), first half: the file is opened for writing,
\* which creates it or cuts it to no bytes
OpenStep(p) ==
    /\ writers[p].pc = "open"
    /\ LET hex == hashObject(writers[p].type, writers[p].content)
       IN  objects' = fsPut(Disk, ObjectPath(hex), <<>>).objects
    /\ writers' = [writers EXCEPT ![p].pc = "write"]
    /\ last' = [op |-> "writeObject", arg |-> <<>>, err |-> "", ret |-> <<>>]
    /\ UNCHANGED <<nitDir, heads, headFile, remotes, workFile, identity, server, now, phase>>

\* a write that adds its bytes after the bytes the file holds
WriteBytesAppend(p) ==
    /\ writers[p].pc = "write"
    /\ LET hex == hashObject(writers[p].type, writers[p].content)
       IN  /\ objects' = fsPut(Disk, ObjectPath(hex),
                               Lookup(objects, hex) \o writers[p].content).objects
           /\ writers' = [writers EXCEPT ![p] = [@ EXCEPT !.pc = "done", !.ret = hex, !.wrote = TRUE]]
    /\ last' = [op |-> "writeObject", arg |-> <<>>, err |-> "", ret |-> <<>>]
    /\ UNCHANGED <<nitDir, heads, headFile, remotes, workFile, identity, server, now, phase>>

\* fs.writeFile(file, content), second half: the bytes are written from the
\* start of the file; return hex
WriteBytes(p) ==
    /\ writers[p].pc = "write"
    /\ LET hex == hashObject(writers[p].type, writers[p].content)
       IN  /\ objects' = fsPut(Disk, ObjectPath(hex), writers[p].content).objects
           /\ writers' = [writers EXCEPT ![p] = [@ EXCEPT !.pc = "done", !.ret = hex, !.wrote = TRUE]]
    /\ last' = [op |-> "writeObject", arg |-> <<>>, err |-> "", ret |-> <<>>]
    /\ UNCHANGED <<nitDir, heads, headFile, remotes, workFile, identity, server, now, phase>>

\* the caller has its digest and may call again
FinishWrite(p) ==
    /\ writers[p].pc = "done"
    /\ writers' = [writers EXCEPT ![p] = Idle]
    /\ last' = [op |-> "writeObject", arg |-> <<>>, err |-> "", ret |-> <<>>]
    /\ UNCHANGED <<diskVars, now, phase>>

\* readObject(nitDir, hash) for the digest of one of the inputs
ReadAction ==
    \E in \in WriteInputs :
        LET hash == hashObject(in.type, in.content)
            r == readObject(Disk, hash)
        IN  /\ last' = [op |-> "readObject", arg |-> hash,
                        err |-> r.err, ret |-> IF r.ok THEN r.v ELSE <<>>]
            /\ UNCHANGED <<diskVars, now, phase, writers>>

\* the commit records the round trip is tried on: authors and messages of one
\* word, with a space, with a line break, with a blank line, ending in a space
Authors ==
    { <<Str("proj")>>, <<Str("my"), SP, Str("agent")>>, <<Str("a"), NL, Str("b")>>,
      <<Str("a"), NL, NL, Str("b")>>, <<Str("a"), SP>> }

MessageTexts ==
    { <<Str("msg")>>, <<Str("fix"), SP, Str("it")>>, <<Str("a"), NL, Str("b")>>,
      <<Str("a"), NL, NL, Str("b")>>, <<>> }

CommitRecords ==
    [ card : { hashObject("card", <<Str("a")>>), hashObject("card", <<Str("b")>>) },
      parent : { NULL, hashObject("commit", <<Str("a")>>) },
      author : Authors,
      timestamp : 0..MaxTime,
      message : MessageTexts ]

\* parseCommit(hash, serializeCommit(x)) for a commit record x
RoundTrip ==
    \E x \in CommitRecords :
        LET raw == serializeCommit(x)
            r == parseCommit(hashObject("commit", raw), raw)
        IN  /\ last' = [op |-> "parseCommit", arg |-> x, err |-> r.err, ret |-> r.v]
            /\ UNCHANGED <<diskVars, now, phase, writers>>

\* s1 with its members written in another order
SkillS1Reordered == [SkillS1 EXCEPT !.keys = <<"name", "id", "description">>]

\* the skill lists diffCards is tried on (ids are unique within a card)
SkillLists ==
    { <<>>, <<SkillS1>>, <<SkillS1Stale>>, <<SkillS1, SkillS2>>, <<SkillS2, SkillS1>>,
      <<SkillS1Stale, SkillS2>>, <<SkillS1Reordered>> }

DiffDocs == { Card(d, UNDEFINED, sk, UNDEFINED) : d \in {D0, D1}, sk \in SkillLists }

\* diffCards(a, b), and diffCards(b, a) next to it
DiffCardsAction ==
    \E a \in DiffDocs, b \in DiffDocs :
        /\ last' = [op |-> "diffCards", arg |-> <<a, b>>, err |-> "",
                    ret |-> <<diffCards(a, b), diffCards(b, a)>>]
        /\ UNCHANGED <<diskVars, now, phase, writers>>

\* one store, one branch
Next ==
    \/ Tick
    \/ EditField
    \/ EditExtra
    \/ InitAction
    \/ CommitAction
    \/ CommitAcrossTick
    \/ LogAction
    \/ StatusAction
    \/ DiffAction

Spec == Init /\ [][Next]_vars

\* branches
NextBranch ==
    \/ EditField
    \/ EditExtra
    \/ InitAction
    \/ CommitAction
    \/ BranchAction
    \/ CheckoutAction

SpecBranch == Init /\ [][NextBranch]_vars

\* branches and a remote
NextPush ==
    \/ EditField
    \/ InitAction
    \/ SaveAgentId
    \/ CommitAction
    \/ BranchAction
    \/ CheckoutAction
    \/ PushAction

SpecPush == Init /\ [][NextPush]_vars

\* branches, and a remote behind a network that may fail
NextRemote ==
    \/ InitAction
    \/ SaveAgentId
    \/ CommitAction
    \/ BranchAction
    \/ CheckoutAction
    \/ PushAnswers

SpecRemote == Init /\ [][NextRemote]_vars

\* a store and the service: push, list, delete and fetch
NextFetch ==
    \/ InitAction
    \/ SaveAgentId
    \/ BranchAction
    \/ PushServer
    \/ ListAction
    \/ DeleteAction
    \/ FetchCardAction
    \/ GetAction
    \/ FetchFromStranger

SpecFetch == Init /\ [][NextFetch]_vars

\* the service, its clients, and who may write
NextServer ==
    \/ PutAction
    \/ LoginAction

SpecServer == Init /\ [][NextServer]_vars

\* a process that may die
NextCrash ==
    \/ EditField
    \/ InitAction
    \/ CommitAction
    \/ CrashInit
    \/ CrashCommit
    \/ KeypairWriteFails

SpecCrash == Init /\ [][NextCrash]_vars

\* a store with branches and a remote, and what status reports of it
NextAll ==
    \/ EditField
    \/ InitAction
    \/ SaveAgentId
    \/ CommitAction
    \/ BranchAction
    \/ CheckoutAction
    \/ PushAction
    \/ StatusAction

SpecAll == Init /\ [][NextAll]_vars

\* a store with branches, and what diff reports of it
NextDiff ==
    \/ EditField
    \/ InitAction
    \/ CommitAction
    \/ BranchAction
    \/ CheckoutAction
    \/ DiffAction

SpecDiff == Init /\ [][NextDiff]_vars

\* a store whose HEAD, working document or objects are damaged, and checkout
NextGuard ==
    \/ EditField
    \/ InitAction
    \/ CommitAction
    \/ BranchAction
    \/ CheckoutAction
    \/ LoseObject
    \/ Damage

SpecGuard == Init /\ [][NextGuard]_vars

\* a store that loses object files
NextFault ==
    \/ EditField
    \/ InitAction
    \/ CommitAction
    \/ LogAction
    \/ LoseObject

SpecFault == Init /\ [][NextFault]_vars

\* the object store under two callers of writeObject and a reader
NextObjects ==
    \/ \E p \in Writers : StartWrite(p)
    \/ \E p \in Writers : AccessStep(p)
    \/ \E p \in Writers : MkdirStep(p)
    \/ \E p \in Writers : OpenStep(p)
    \/ \E p \in Writers : WriteBytes(p)
    \/ \E p \in Writers : FinishWrite(p)
    \/ ReadAction

SpecObjects == Init /\ [][NextObjects]_vars

\* serializeCommit and parseCommit on commit records
NextRoundTrip == RoundTrip

SpecRoundTrip == Init /\ [][NextRoundTrip]_vars

\* diffCards on pairs of documents
NextDiffCards == DiffCardsAction

SpecDiffCards == Init /\ [][NextDiffCards]_vars

(***************************************************************************)
(* What the properties observe, read from the files themselves             *)
(***************************************************************************)

\* the digest a branch ref holds, null when there is no such ref
Tip(d, b) == IF b \in DOMAIN d.heads THEN Trim(d.heads[b]) ELSE NULL

\* the branch HEAD names, null when HEAD names none
HeadBranch(d) ==
    IF \E b \in {MAIN, FAAM} :
          d.headFile = <<Str("ref:"), SP, Str("refs/heads/")>> \o b \o <<NL>>
    THEN CHOOSE b \in {MAIN, FAAM} :
          d.headFile = <<Str("ref:"), SP, Str("refs/heads/")>> \o b \o <<NL>>
    ELSE NULL

\* the tip of the branch HEAD names
HeadTip(d) == Tip(d, HeadBranch(d))

Stored(d, h) == h \in DOMAIN d.objects

\* the object under digest h is whole: its bytes hash to h
Whole(d, type, h) == Stored(d, h) /\ hashObject(type, d.objects[h]) = h

\* the commit record stored under h
CommitOf(d, h) == parseCommit(h, d.objects[h]).v

\* the card snapshot of the commit stored under h
CardOf(d, h) == JSONparse(d.objects[CommitOf(d, h).card]).v

\* the working document can be read
WorkOk(d) == d.workFile # ENOENT /\ JSONparse(d.workFile).ok

WorkDoc(d) == JSONparse(d.workFile).v

\* the digest a document is stored under
CardDigest(card) == hashObject("card", JSONstringify(card))

\* HEAD names a branch whose tip commit and card snapshot are stored
HeadSnapshotOk(d) ==
    /\ d.nitDir
    /\ HeadBranch(d) # NULL
    /\ Stored(d, HeadTip(d))
    /\ Stored(d, CommitOf(d, HeadTip(d)).card)

\* the number of commits on the parent chain from h, fuel bounding the walk
RECURSIVE ChainLen(_, _, _)
ChainLen(d, h, fuel) ==
    IF h = NULL \/ ~Stored(d, h) \/ fuel = 0 THEN 0
    ELSE 1 + ChainLen(d, CommitOf(d, h).parent, fuel - 1)

\* the first n commits on the parent chain from h that are stored
RECURSIVE ChainPrefix(_, _, _)
ChainPrefix(d, h, n) ==
    IF h = NULL \/ ~Stored(d, h) \/ n = 0 THEN <<>>
    ELSE <<CommitOf(d, h)>> \o ChainPrefix(d, CommitOf(d, h).parent, n - 1)

\* within the first n commits from h there is one whose parent is not stored
RECURSIVE ChainBroken(_, _, _)
ChainBroken(d, h, n) ==
    IF h = NULL \/ ~Stored(d, h) \/ n = 0 THEN FALSE
    ELSE LET parent == CommitOf(d, h).parent
         IN  IF parent # NULL /\ ~Stored(d, parent) THEN n > 1
             ELSE ChainBroken(d, parent, n - 1)

Min(a, b) == IF a <= b THEN a ELSE b

(***************************************************************************)
(* Crash safety of the refs                                                *)
(***************************************************************************)

WorkDiffers(d) ==
    HeadSnapshotOk(d) /\ WorkOk(d) /\ WorkDoc(d) # CardOf(d, HeadTip(d))

\* the diff engine reports a change between that snapshot and the document
DiffSeesChange(d) ==
    HeadSnapshotOk(d) /\ WorkOk(d) /\ diffCards(CardOf(d, HeadTip(d)), WorkDoc(d)).changed

\* a checkout refused for uncommitted changes leaves the document, HEAD and
\* the branch refs alone
CheckoutRefused ==
    /\ last'.err = "UncommittedChanges"
    /\ workFile' = workFile
    /\ headFile' = headFile
    /\ heads' = heads

C3_CheckoutSwitches ==
    [][last'.op = "checkout" =>
         LET b == last'.arg
         IN  /\ last'.err = "" =>
                  /\ b \in DOMAIN heads
                  /\ HeadBranch(Disk') = b
                  /\ WorkOk(Disk')
                  /\ WorkDoc(Disk') = CardOf(Disk, Tip(Disk, b))
                  /\ diff(Disk', <<>>).err = ""
                  /\ ~diff(Disk', <<>>).ret.changed
                  /\ heads' = heads
                  /\ objects' = objects
             /\ b \notin DOMAIN heads =>
                  /\ last'.err # ""
                  /\ headFile' = headFile
                  /\ workFile' = workFile]_vars

\* a checkout moved HEAD to a branch whose tip is not the other branch's tip
C3_Switched ==
    /\ last.op = "checkout"
    /\ last.err = ""
    /\ last.arg = FAAM
    /\ HeadBranch(Disk) = FAAM
    /\ Tip(Disk, MAIN) # Tip(Disk, FAAM)
    /\ WorkDoc(Disk) = CardOf(Disk, Tip(Disk, FAAM))
    /\ WorkDoc(Disk) # CardOf(Disk, Tip(Disk, MAIN))

(***************************************************************************)
(* commit                                                                  *)
(***************************************************************************)

\* the digest of the working document is the card digest recorded in the tip
\* commit of HEAD's branch
WorkDigestIsTip(d) ==
    HeadSnapshotOk(d) /\ WorkOk(d)
        /\ CardDigest(WorkDoc(d)) = CommitOf(d, HeadTip(d)).card

\* the same of the working document once its skill pointers are resolved
ResolvedDigestIsTip(d) ==
    HeadSnapshotOk(d) /\ WorkOk(d)
        /\ CardDigest(resolveSkillPointers(WorkDoc(d))) = CommitOf(d, HeadTip(d)).card

\* a commit refused for want of changes creates no commit object and moves no
\* branch ref, HEAD or remote-tracking ref
CommitRefused ==
    /\ last'.err = "NoChanges"
    /\ CommitObjects' = CommitObjects
    /\ heads' = heads
    /\ headFile' = headFile
    /\ remotes' = remotes

\* C4, as stated: commit fails with NoChanges whenever the digest of the
\* working document equals the card digest recorded in the tip commit of the
\* current branch, and then no commit object is created and no branch ref,
\* HEAD or remote-tracking ref moves.
C4_SameDigestRefused ==
    [][(last'.op = "commit" /\ WorkDigestIsTip(Disk)) => CommitRefused]_vars

\* C4, amended: commit fails with NoChanges whenever the digest of the
\* working document, taken after its skill pointers are resolved, equals the
\* card digest recorded in the tip commit of the current branch, and then no
\* commit object is created and no branch ref, HEAD or remote-tracking ref
\* moves.
C4_SameResolvedDigestRefused ==
    [][(last'.op = "commit" /\ ResolvedDigestIsTip(Disk)) => CommitRefused]_vars

\* a commit was refused on a store with a second branch and a pushed main
C4_Refused ==
    /\ last.op = "commit"
    /\ last.err = "NoChanges"
    /\ FAAM \in DOMAIN heads
    /\ DOMAIN remotes # {}

\* C5: a successful commit moves the ref of the current branch, and no other,
\* to a commit it did not hold before, whose parent is the tip the branch had
\* and whose card is the digest of the working document; HEAD, every other
\* branch ref and every remote-tracking ref are unchanged.
C5_CommitAdvancesCurrentBranch ==
    [][(last'.op = "commit" /\ last'.err = "") =>
         LET b == HeadBranch(Disk)
             new == Tip(Disk', b)
         IN  /\ b \in DOMAIN heads
             /\ new # Tip(Disk, b)
             /\ Whole(Disk', "commit", new)
             /\ CommitOf(Disk', new).parent = Tip(Disk, b)
             /\ WorkOk(Disk')
             /\ CommitOf(Disk', new).card = CardDigest(WorkDoc(Disk'))
             /\ Whole(Disk', "card", CommitOf(Disk', new).card)
             /\ DOMAIN heads' = DOMAIN heads
             /\ \A o \in DOMAIN heads \ {b} : heads'[o] = heads[o]
             /\ headFile' = headFile
             /\ remotes' = remotes]_vars

\* a commit succeeded on the second branch while main stood still and had
\* been pushed
C5_CommittedOnSecondBranch ==
    /\ last.op = "commit"
    /\ last.err = ""
    /\ HeadBranch(Disk) = FAAM
    /\ Tip(Disk, FAAM) = last.ret.hash
    /\ CommitOf(Disk, Tip(Disk, FAAM)).parent = Tip(Disk, MAIN)
    /\ getRemoteRef(Disk, ORIGIN, MAIN) = Tip(Disk, MAIN)

(***************************************************************************)
(* init                                                                    *)
(***************************************************************************)

\* C6: after init succeeds, on a location that had no store, there is exactly
\* one branch, main, its tip is a commit whose parent is null, HEAD points at
\* main, and log() returns exactly that one commit.
C6_InitLeavesOneCommit ==
    /\ [][(last'.op = "init" /\ last'.err = "") =>
            /\ ~nitDir
            /\ DOMAIN heads' = {MAIN}
            /\ Whole(Disk', "commit", Tip(Disk', MAIN))
            /\ CommitOf(Disk', Tip(Disk', MAIN)).parent = NULL
            /\ HeadBranch(Disk') = MAIN
            /\ log(Disk', <<>>).err = ""
            /\ log(Disk', <<>>).ret = <<CommitOf(Disk', Tip(Disk', MAIN))>>]_vars
    /\ [][(last'.op = "log" /\ last'.arg = <<>> /\ phase' = "inited") =>
            /\ last'.err = ""
            /\ last'.ret = <<CommitOf(Disk, Tip(Disk, MAIN))>>]_vars

\* log() has answered on a store that init has just made
C6_LoggedAfterInit ==
    /\ phase = "inited"
    /\ last.op = "log"
    /\ last.arg = <<>>
    /\ Len(last.ret) = 1
    /\ last.ret[1].parent = NULL
    /\ last.ret[1].hash = Tip(Disk, MAIN)

\* status reports no uncommitted changes
StatusClean == last'.err = "" /\ last'.ret.uncommittedChanges = <<>>

\* the scenario of init, one edit of a scalar field, commit and log, but for
\* the commit that directly follows init
InitEditCommitLog ==
    /\ (phase' = "inited" /\ last'.op = "status") => StatusClean
    /\ (phase = "edited" /\ last'.op = "commit") => last'.err = ""
    /\ (phase' = "committed" /\ last'.op = "log" /\ last'.arg = <<>>) =>
           last'.err = "" /\ Len(last'.ret) = 2

\* resolving the skill pointers of the working document changes nothing in it
WorkIsResolved(d) == WorkOk(d) /\ resolveSkillPointers(WorkDoc(d)) = WorkDoc(d)

\* C7, as stated: directly after init, with or without a working document
\* that was there before, status reports no uncommitted changes and a commit
\* with no edit in between fails with NoChanges; after an edit of one scalar
\* field commit succeeds and log() returns two entries.
C7_CleanAfterInit ==
    [][/\ InitEditCommitLog
       /\ (phase = "inited" /\ last'.op = "commit") => last'.err = "NoChanges"]_vars

\* C7, amended: directly after init, with or without a working document that
\* was there before, status reports no uncommitted changes, and a commit with
\* no edit in between fails with NoChanges provided the skill entries of the
\* document already say what their SKILL.md files say (as they do when init
\* wrote the document itself); after an edit of one scalar field commit
\* succeeds and log() returns two entries.
C7_CleanAfterInitWhenResolved ==
    [][/\ InitEditCommitLog
       /\ (phase = "inited" /\ last'.op = "commit" /\ WorkIsResolved(Disk)) =>
              last'.err = "NoChanges"]_vars

\* init, an edit of the description, a commit, and log() has answered with two
C7_TwoEntriesLogged ==
    /\ phase = "committed"
    /\ last.op = "log"
    /\ last.arg = <<>>
    /\ Len(last.ret) = 2
    /\ CardOf(Disk, last.ret[1].hash).description
           # CardOf(Disk, last.ret[2].hash).description

\* C8: init fails with AlreadyExists whenever a store exists at the location,
\* and that failure changes nothing: the keypair, the objects, the refs, HEAD
\* and the working document are what they were.
C8_InitTwiceRefused ==
    [][(last'.op = "init" /\ nitDir) =>
          /\ last'.err = "AlreadyExists"
          /\ identity' = identity
          /\ objects' = objects
          /\ heads' = heads
          /\ remotes' = remotes
          /\ headFile' = headFile
          /\ workFile' = workFile
          /\ nitDir']_vars

\* init was refused on a store that holds a keypair and two commits
C8_Refused ==
    /\ last.op = "init"
    /\ last.err = "AlreadyExists"
    /\ identity.pub = <<Str("k1"), NL>>
    /\ Cardinality(CommitObjects) = 2

(***************************************************************************)
(* log                                                                     *)
(***************************************************************************)

\* the limit a call of log works with: its argument, or 50 when none is given
LimitOf(count) == IF count = <<>> THEN 50 ELSE count[1]

\* the number of commits in the history of HEAD's branch
HistoryLen(d) == ChainLen(d, HeadTip(d), Cardinality(DOMAIN d.objects))

\* each entry's parent is the digest of the entry after it
Linked(entries) ==
    \A i \in 1..(Len(entries) - 1) : entries[i].parent = entries[i + 1].hash

\* C9: on a current branch with a history of N commits, log(limit) returns
\* the first min(N, limit) commits from the tip on, limit being 50 when it is
\* not given; each entry's parent is the digest of the next entry, and when
\* N <= limit the parent of the last entry is null.
C9_LogReturnsPrefix ==
    (last.op = "log" /\ HeadSnapshotOk(Disk)) =>
        LET N == HistoryLen(Disk)
            limit == LimitOf(last.arg)
            n == Min(N, limit)
        IN  /\ last.err = ""
            /\ Len(last.ret) = n
            /\ last.ret = ChainPrefix(Disk, HeadTip(Disk), n)
            /\ last.ret[1].hash = HeadTip(Disk)
            /\ Linked(last.ret)
            /\ N <= limit => last.ret[n].parent = NULL

\* log was asked for fewer commits than the branch has
C9_LimitCuts ==
    /\ last.op = "log"
    /\ last.arg = <<1>>
    /\ HistoryLen(Disk) = 2
    /\ Len(last.ret) = 1
    /\ last.ret[1].parent # NULL

\* C10, as stated: when a commit in the parent chain of the current branch
\* names a parent whose object is missing from the store, log() stops there
\* and returns the commits it has read instead of failing.
C10_LogStopsAtMissingParent ==
    (/\ last.op = "log"
     /\ HeadSnapshotOk(Disk)
     /\ ChainBroken(Disk, HeadTip(Disk), LimitOf(last.arg))) =>
        /\ last.err = ""
        /\ last.ret = ChainPrefix(Disk, HeadTip(Disk), LimitOf(last.arg))

(***************************************************************************)
(* branch                                                                  *)
(***************************************************************************)

\* C11: branch(name) fails with AlreadyExists when a branch of that name
\* exists, and then changes nothing; otherwise, on a store, it creates the
\* branch with the commit HEAD resolves to; either way HEAD, the working
\* document and every other branch ref are what they were.
C11_BranchCreatesAtHead ==
    [][(last'.op = "branch" /\ last'.arg # <<>>) =>
         LET name == last'.arg
         IN  /\ name \in DOMAIN heads =>
                  /\ last'.err = "AlreadyExists"
                  /\ heads' = heads
                  /\ objects' = objects
                  /\ remotes' = remotes
                  /\ identity' = identity
             /\ (nitDir /\ name \notin DOMAIN heads) =>
                  /\ last'.err = ""
                  /\ DOMAIN heads' = DOMAIN heads \cup {name}
                  /\ Tip(Disk', name) = HeadTip(Disk)
                  /\ Whole(Disk', "commit", Tip(Disk', name))
             /\ headFile' = headFile
             /\ workFile' = workFile
             /\ \A o \in DOMAIN heads \ {name} : heads'[o] = heads[o]]_vars

\* a branch was created at a commit that is not the first, from main
C11_Created ==
    /\ last.op = "branch"
    /\ last.arg = FAAM
    /\ last.err = ""
    /\ HeadBranch(Disk) = MAIN
    /\ Tip(Disk, FAAM) = Tip(Disk, MAIN)
    /\ CommitOf(Disk, Tip(Disk, FAAM)).parent # NULL

(***************************************************************************)
(* HEAD                                                                    *)
(***************************************************************************)

\* C12: in every state of a store that init has made, whatever commit,
\* branch, checkout, push, log, diff and status have done since, HEAD reads
\* ref: refs/heads/<name> for a branch <name> whose ref exists, and
\* resolveHead succeeds.
C12_HeadNamesBranch ==
    nitDir =>
        /\ HeadBranch(Disk) # NULL
        /\ HeadBranch(Disk) \in DOMAIN heads
        /\ Whole(Disk, "commit", HeadTip(Disk))
        /\ getHead(Disk).ok
        /\ resolveHead(Disk).ok
        /\ resolveHead(Disk).v = HeadTip(Disk)

\* HEAD is on the second branch, whose tip is not main's, and main is pushed
C12_HeadOnSecondBranch ==
    /\ HeadBranch(Disk) = FAAM
    /\ Tip(Disk, FAAM) # Tip(Disk, MAIN)
    /\ getRemoteRef(Disk, ORIGIN, MAIN) # NULL
    /\ last.op = "status"

(***************************************************************************)
(* The public-key field                                                    *)
(***************************************************************************)

\* C13, as stated: in every reachable state the card snapshot at the tip of
\* a branch other than main carries no public-key field, and the snapshot at
\* the tip of main carries it.
C13_KeyOnMainOnly ==
    \A b \in DOMAIN heads :
        IF b = MAIN
        THEN CardOf(Disk, Tip(Disk, b)).publicKey # UNDEFINED
        ELSE CardOf(Disk, Tip(Disk, b)).publicKey = UNDEFINED

\* the stored bytes of the object that (type, content) names
StoredBytes(type, content) ==
    Lookup(objects, <<Tok("sha256", [type |-> type, content |-> content])>>)

\* some call is between opening the file of (type, content) and writing it
MidWrite(type, content) ==
    \E p \in Writers :
        writers[p].pc = "write" /\ writers[p].type = type /\ writers[p].content = content

C15_CommitRoundTrips ==
    last.op = "parseCommit" =>
        /\ last.err = ""
        /\ last.ret.card = last.arg.card
        /\ last.ret.parent = last.arg.parent
        /\ last.ret.author = last.arg.author
        /\ last.ret.timestamp = last.arg.timestamp
        /\ last.ret.message = last.arg.message

\* C16: for any valid document X, diffCards(X, X) returns changed = false with
\* no field diff and no added, removed or modified skill; and changed is true
\* exactly when one of those four lists is not empty.
C16_SelfDiffEmpty ==
    last.op = "diffCards" =>
        LET r == last.ret[1]
        IN  /\ last.arg[1] = last.arg[2] =>
                  /\ r.changed = FALSE
                  /\ r.fields = <<>>
                  /\ r.skillsAdded = <<>>
                  /\ r.skillsRemoved = <<>>
                  /\ r.skillsModified = <<>>
            /\ r.changed <=> \/ r.fields # <<>>
                             \/ r.skillsAdded # <<>>
                             \/ r.skillsRemoved # <<>>
                             \/ r.skillsModified # <<>>

\* a document with two skills was compared with itself
C16_SelfDiffed ==
    /\ last.op = "diffCards"
    /\ last.arg[1] = last.arg[2]
    /\ Len(last.arg[1].skills) = 2
    /\ last.ret[1].changed = FALSE

\* the ids of a card's skills, in the order of the list, and as a set
IdSeq(card) == [i \in 1..Len(card.skills) |-> card.skills[i].id]

IdSet(card) == { card.skills[i].id : i \in 1..Len(card.skills) }

\* the record a card holds under an id
RecordOf(card, id) == card.skills[CHOOSE i \in 1..Len(card.skills) : card.skills[i].id = id]

Elems(seq) == { seq[i] : i \in 1..Len(seq) }

C18_DiffResolvesTarget ==
    [][last'.op = "diff" =>
         LET t == last'.arg
             head == CardOf(Disk, HeadTip(Disk))
             digest == Len(t) = 1 /\ t[1].k = "sha256"
         IN  /\ UNCHANGED diskVars
             /\ nitDir =>
                  /\ (t = <<>> /\ WorkOk(Disk)) =>
                         /\ last'.err = ""
                         /\ last'.ret = diffCards(head, WorkDoc(Disk))
                  /\ (t # <<>> /\ t \in DOMAIN heads) =>
                         /\ last'.err = ""
                         /\ last'.ret = diffCards(head, CardOf(Disk, Tip(Disk, t)))
                  /\ (t \notin DOMAIN heads /\ digest /\ t \in CommitObjects) =>
                         /\ last'.err = ""
                         /\ last'.ret = diffCards(head, CardOf(Disk, t))
                  /\ (t # <<>> /\ t \notin DOMAIN heads /\ ~digest) =>
                         last'.err = "UnknownTarget"]_vars

\* with HEAD on main, diff(faam.io) reported the change committed on faam.io
C18_DiffedAgainstBranch ==
    /\ last.op = "diff"
    /\ last.arg = FAAM
    /\ HeadBranch(Disk) = MAIN
    /\ Tip(Disk, FAAM) # Tip(Disk, MAIN)
    /\ last.err = ""
    /\ last.ret.changed

\* the remote-tracking digest of branch b under origin, null when never pushed
RemoteTip(d, b) ==
    IF ORIGIN \o <<Str("/")>> \o b \in DOMAIN d.remotes
    THEN Trim(d.remotes[ORIGIN \o <<Str("/")>> \o b])
    ELSE NULL

\* the number of commits on the parent chain from h back to, and without, stop
RECURSIVE CommitsSince(_, _, _, _)
CommitsSince(d, h, stop, fuel) ==
    IF h = NULL \/ h = stop \/ ~Stored(d, h) \/ fuel = 0 THEN 0
    ELSE 1 + CommitsSince(d, CommitOf(d, h).parent, stop, fuel - 1)

\* C19: status reports one entry per branch, and its ahead count is the
\* number of commits on the chain from the branch tip back to, and without, the
\* branch's remote-tracking digest, or the length of the whole chain when the
\* branch was never pushed: 1 for a branch holding only the commit of init, 0
\* for a branch whose remote-tracking digest is its tip.
C19_AheadCountsCommitsSincePush ==
    (last.op = "status" /\ last.err = "") =>
        /\ { last.ret.branches[i].name : i \in 1..Len(last.ret.branches) } = DOMAIN heads
        /\ \A i \in 1..Len(last.ret.branches) :
              LET b == last.ret.branches[i].name
                  ahead == last.ret.branches[i].ahead
              IN  /\ ahead = CommitsSince(Disk, Tip(Disk, b), RemoteTip(Disk, b),
                                          MaxCommits + 1)
                  /\ RemoteTip(Disk, b) = NULL =>
                         ahead = ChainLen(Disk, Tip(Disk, b), MaxCommits + 1)
                  /\ RemoteTip(Disk, b) = Tip(Disk, b) => ahead = 0
                  /\ (RemoteTip(Disk, b) = NULL /\ CommitOf(Disk, Tip(Disk, b)).parent = NULL)
                         => ahead = 1

\* main was pushed at its first commit and has one commit since: status
\* reports it 1 ahead, not 2, and reports faam.io, never pushed, by its chain
C19_OneAheadAfterPush ==
    /\ last.op = "status"
    /\ last.err = ""
    /\ RemoteTip(Disk, MAIN) # NULL
    /\ RemoteTip(Disk, MAIN) = CommitOf(Disk, Tip(Disk, MAIN)).parent
    /\ \E i \in 1..Len(last.ret.branches) :
          last.ret.branches[i].name = MAIN /\ last.ret.branches[i].ahead = 1
    /\ \E i \in 1..Len(last.ret.branches) :
          /\ last.ret.branches[i].name = FAAM
          /\ RemoteTip(Disk, FAAM) = NULL
          /\ last.ret.branches[i].ahead >= 1

\* the result of push for branch b says the remote accepted it
Pushed(results, b) ==
    \E i \in 1..Len(results) : results[i].branch = b /\ results[i].success

\* C20: push sets the remote-tracking ref of a branch only when the push of
\* that branch succeeded, and then to the commit digest that was sent, which is
\* the branch tip, sent with the card snapshot of that tip; a branch whose push
\* failed, or that was not pushed, keeps its remote-tracking ref as it was; and
\* push changes neither HEAD, nor a local branch ref, nor an object, nor the
\* working document.
C20_PushSetsRemoteRefOnSuccess ==
    [][last'.op = "push" =>
         /\ UNCHANGED <<nitDir, objects, heads, headFile, workFile, identity>>
         /\ DOMAIN remotes \subseteq DOMAIN remotes'
         /\ \A b \in {MAIN, FAAM} :
               IF Pushed(last'.ret, b)
               THEN /\ b \in DOMAIN heads
                    /\ RemoteTip(Disk', b) = Tip(Disk, b)
                    /\ \A i \in 1..Len(last'.ret) :
                          last'.ret[i].branch = b =>
                              /\ last'.ret[i].commitHash = Tip(Disk, b)
                              /\ last'.ret[i].cardJson =
                                     objects[CommitOf(Disk, Tip(Disk, b)).card]
               ELSE Lookup(remotes', ORIGIN \o <<Str("/")>> \o b)
                        = Lookup(remotes, ORIGIN \o <<Str("/")>> \o b)]_vars

\* a push of both branches in which the remote took main and refused faam.io,
\* while the working document held an edit that is not committed: main's
\* remote-tracking ref is its tip, faam.io has none, and what was sent for main
\* is the committed snapshot
C20_OneTakenOneRefused ==
    /\ last.op = "push"
    /\ last.err = ""
    /\ Len(last.ret) = 2
    /\ Pushed(last.ret, MAIN)
    /\ ~Pushed(last.ret, FAAM)
    /\ RemoteTip(Disk, MAIN) = Tip(Disk, MAIN)
    /\ RemoteTip(Disk, FAAM) = NULL
    /\ WorkOk(Disk)
    /\ \E i \in 1..Len(last.ret) :
          /\ last.ret[i].branch = MAIN
          /\ JSONparse(last.ret[i].cardJson).v # WorkDoc(Disk)

(***************************************************************************)
(* Push over a network that may fail                                       *)
(***************************************************************************)

\* the branches a push selects, in the order it takes them
Selected(d, all) ==
    IF all THEN SelectSeq(BranchNames, LAMBDA b : b \in DOMAIN d.heads)
    ELSE <<HeadBranch(d)>>

\* the store holds an identifier and both halves of its key
HasIdentity(d) ==
    d.identity.id # ENOENT /\ d.identity.pub # ENOENT /\ d.identity.key # ENOENT

\* C21: a push that returns gives exactly one result per selected branch, in
\* the order of the branches, whatever the network made of the branches before
\* it; and where the store holds its identity a request was sent for every
\* one of them, the refused and the unreachable included
C21_EveryBranchAttempted ==
    [][last'.op = "push" /\ last'.err = "" =>
         LET sel == Selected(Disk, last'.arg.all)
         IN  /\ Len(last'.ret) = Len(sel)
             /\ \A i \in 1..Len(sel) :
                   /\ last'.ret[i].branch = sel[i]
                   /\ last'.ret[i].commitHash = Tip(Disk, sel[i])
                   /\ HasIdentity(Disk) =>
                         /\ last'.ret[i].sent
                         /\ last'.ret[i].request.path
                                = <<Str("/agent-card/branches/")>> \o sel[i]
                         /\ last'.ret[i].success = (last'.arg.answers[sel[i]] = "ok")]_vars

\* a push of two branches whose first was refused and whose second was taken
C21_SecondTakenAfterFirstFailed ==
    /\ last.op = "push"
    /\ last.err = ""
    /\ last.arg.all
    /\ Len(last.ret) = 2
    /\ ~last.ret[1].success
    /\ last.ret[1].sent
    /\ last.ret[2].success
    /\ RemoteTip(Disk, last.ret[2].branch) = Tip(Disk, last.ret[2].branch)

\* the text t holds the text part somewhere
Holds(t, part) ==
    \E i \in 0..(Len(t) - Len(part)) : SubSeq(t, i + 1, i + Len(part)) = part

\* the text a refusing network answers with
RefusalText == <<Str("Internal"), SP, Str("error")>>

\* C22: a push returns a failed result holding the server's text for a branch
\* whose PUT is refused, and does not raise for it; a push from a store whose
\* identity is missing raises, and gives no results
C22_HttpFailureReportedIdentityRaises ==
    [][last'.op = "push" /\ nitDir /\ HeadBranch(Disk) \in DOMAIN heads =>
         /\ HasIdentity(Disk) =>
               /\ last'.err = ""
               /\ \A i \in 1..Len(last'.ret) :
                     last'.arg.answers[last'.ret[i].branch] = "rejected" =>
                         /\ ~last'.ret[i].success
                         /\ Holds(last'.ret[i].error, RefusalText)
         /\ ~HasIdentity(Disk) => last'.err # ""]_vars

(***************************************************************************)
(* List, delete and fetch                                                  *)
(***************************************************************************)

\* the last answer an operation got
LastExchange(ret) == ret.sent[Len(ret.sent)]

\* the last answer an operation got was a response outside 200..299
Rejected(ret) ==
    /\ ret.sent # <<>>
    /\ LastExchange(ret).status # 0
    /\ ~(LastExchange(ret).status >= 200 /\ LastExchange(ret).status <= 299)

\* C23: list, delete and fetch fail on every response outside 200..299 that
\* ends them, with an error whose message holds the text of that response
C23_RejectionRaisedWithServerText ==
    [][last'.op \in {"list", "delete", "fetch"} /\ Rejected(last'.ret) =>
         /\ last'.err # ""
         /\ Holds(last'.ret.v, LastExchange(last'.ret).text)]_vars

(***************************************************************************)
(* The signed request                                                      *)
(***************************************************************************)

\* the signed requests an operation sent
SignedRequests(l) ==
    IF l.op = "push" /\ l.err = ""
    THEN { l.ret[i].request : i \in { j \in 1..Len(l.ret) : l.ret[j].sent } }
    ELSE IF l.op \in {"list", "delete"}
    THEN { l.ret.sent[i].request : i \in 1..Len(l.ret.sent) }
    ELSE {}

\* METHOD, PATH, AGENT_ID, TIMESTAMP joined by line breaks, and where the
\* request has a body a line break and the hex digest of the body
SignedText(r) ==
    r.method \o <<NL>> \o r.path \o <<NL>> \o r.headers.agentId \o <<NL>> \o r.headers.timestamp
        \o (IF r.body # UNDEFINED THEN <<NL, Tok("sha256hex", r.body)>> ELSE <<>>)

\* the request with one part changed
Altered(r) ==
    { [r EXCEPT !.method = m] : m \in {<<Str("PUT")>>, <<Str("GET")>>, <<Str("DELETE")>>} }
    \cup { [r EXCEPT !.path = p] :
              p \in {<<Str("/agent-card/branches")>>,
                     <<Str("/agent-card/branches/")>> \o MAIN,
                     <<Str("/agent-card/branches/")>> \o FAAM} }
    \cup { [r EXCEPT !.headers.agentId = a] :
              a \in {deriveAgentId(formatPublicKeyField(<<Str("k1")>>)),
                     deriveAgentId(formatPublicKeyField(<<Str("k2")>>))} }
    \cup { [r EXCEPT !.headers.timestamp = <<Num(t)>>] : t \in 0..(MaxTime + 1) }
    \cup { [r EXCEPT !.body = b] :
              b \in {UNDEFINED, <<>>,
                     <<Json([card_json |-> <<>>, commit_hash |-> <<>>])>>} }

\* C24: the signature of every signed request the client sends is over
\* METHOD, PATH, AGENT_ID, TIMESTAMP of that request joined by line breaks,
\* followed by a line break and the digest of the body exactly when a body is
\* sent; the message the service rebuilds from the request is that text, so
\* the signature verifies under the key of the store; and it verifies for no
\* request that differs from the one sent in method, path, identifier,
\* timestamp or body
C24_SignatureCoversTheRequest ==
    [][\A r \in SignedRequests(last') :
          /\ r.headers.signature
                 = <<Tok("sig", [d |-> Trim(identity.key), msg |-> SignedText(r)])>>
          /\ r.headers.agentId = Trim(identity.id)
          /\ CanonicalMessage(r) = SignedText(r)
          /\ verifySignature(Trim(identity.pub), CanonicalMessage(r), r.headers.signature)
          /\ (r.body # UNDEFINED) = (r.method = <<Str("PUT")>>)
          /\ \A r2 \in Altered(r) \ {r} :
                ~verifySignature(Trim(identity.pub), CanonicalMessage(r2),
                                 r.headers.signature)]_vars

\* the service took a signed request with a body (a push of main) and then
\* one without (a list of the branches)
C24_SignedWithAndWithoutBody ==
    /\ last.op = "list"
    /\ last.err = ""
    /\ Len(last.ret.sent) = 1
    /\ last.ret.sent[1].request.body = UNDEFINED
    /\ last.ret.sent[1].status = 200
    /\ last.ret.v = <<MAIN>>
    /\ BranchKey(Trim(identity.id), MAIN) \in DOMAIN server

(***************************************************************************)
(* fetchBranchCard                                                         *)
(***************************************************************************)

\* the store holds both halves of a key to sign with
HasKey(d) == d.identity.pub # ENOENT /\ d.identity.key # ENOENT

\* a response of the range 200..299
Ok2xx(code) == code >= 200 /\ code <= 299

\* the error of an operation that needs to sign and has nothing to sign
\* with: the caller gave no store, or the store holds no key
AuthRequired(l) == l.err \in {"AuthRequired", "NoIdentity"}

\* C29: every fetch starts with one GET without headers.  For main that is
\* the only request, and a 401 makes the fetch fail.  For another branch a
\* 401 is followed by exactly one more request, which holds the challenge of
\* the 401 as it was received and its signature under the key of the store,
\* and whose 2xx answer is the document returned; nothing else is followed
\* by a second request; and where there is nothing to sign with, the fetch
\* fails for that reason after the first request
C29_FetchSignsOnlyAChallenge ==
    [][last'.op = "fetch" =>
         LET a == last'.arg
             sent == last'.ret.sent
             canSign == a.hasNitDir /\ HasKey(Disk)
         IN  /\ Len(sent) >= 1
             /\ sent[1].request.headers = NoHeaders
             /\ sent[1].request.method = <<Str("GET")>>
             /\ a.branch = MAIN =>
                   /\ Len(sent) = 1
                   /\ sent[1].request.query = <<>>
                   /\ sent[1].status = 401 => last'.err = "RemoteError"
             /\ a.branch # MAIN /\ sent[1].status # 401 => Len(sent) = 1
             /\ a.branch # MAIN /\ sent[1].status = 401 /\ ~canSign =>
                   /\ Len(sent) = 1
                   /\ AuthRequired(last')
                   /\ ~a.hasNitDir => last'.err = "AuthRequired"
             /\ a.branch # MAIN /\ sent[1].status = 401 /\ canSign =>
                   /\ Len(sent) = 2
                   /\ sent[2].request.headers.challenge
                          = JSONparse(sent[1].text).v.challenge
                   /\ sent[2].request.headers.signature
                          = <<Tok("sig", [d |-> Trim(identity.key),
                                          msg |-> JSONparse(sent[1].text).v.challenge])>>
                   /\ sent[2].request.headers.agentId = UNDEFINED
                   /\ sent[2].request.query = sent[1].request.query
                   /\ Ok2xx(sent[2].status) =>
                         /\ last'.err = ""
                         /\ last'.ret.v = JSONparse(sent[2].text).v
                   /\ sent[2].status # 0 /\ ~Ok2xx(sent[2].status) =>
                         last'.err = "RemoteError"]_vars

\* a fetch of faam.io that got a challenge from the service, signed it, and
\* was given the snapshot the service holds for the branch
C29_FetchedAfterOneRound ==
    /\ last.op = "fetch"
    /\ last.err = ""
    /\ last.arg.branch = FAAM
    /\ Len(last.ret.sent) = 2
    /\ last.ret.sent[1].status = 401
    /\ last.ret.sent[2].status = 200
    /\ last.ret.v = JSONparse(server[BranchKey(Trim(identity.id), FAAM)].card_json).v

(***************************************************************************)
(* The service: who may write                                              *)
(***************************************************************************)

\* the service took the write
Accepted(l) == l.op = "put" /\ l.ret.status = 200

\* the key the service holds for an identifier, ENOENT when it holds none
Pinned(kv, agentId) ==
    IF agentId \o <<Str(":main:pubkey")>> \in DOMAIN kv
    THEN kv[agentId \o <<Str(":main:pubkey")>>] ELSE ENOENT

\* the service holds a snapshot of the branch of the identifier
Holding(kv, agentId, branchName) == agentId \o <<Str(":")>> \o branchName \in DOMAIN kv

\* C25: a write to a branch other than main is accepted only for an
\* identifier that has a pinned key; a key is pinned only by an accepted
\* write to main of that identifier; and the first write accepted for an
\* identifier is to main
C25_OnlyMainPinsAKey ==
    [][/\ Accepted(last') /\ last'.arg.branch # MAIN =>
              Pinned(server, last'.arg.agentId) # ENOENT
       /\ \A key \in Keys :
             Pinned(server, IdOf(key)) = ENOENT /\ Pinned(server', IdOf(key)) # ENOENT =>
                 /\ Accepted(last')
                 /\ last'.arg.branch = MAIN
                 /\ last'.arg.agentId = IdOf(key)
       /\ Accepted(last') /\ (\A b \in {MAIN, FAAM} : ~Holding(server, last'.arg.agentId, b)) =>
              last'.arg.branch = MAIN]_vars

\* the service took a write to faam.io, of an identifier whose key it had
\* pinned at a write to main
C25_BranchAfterMain ==
    /\ Accepted(last)
    /\ last.arg.branch = FAAM
    /\ Pinned(server, last.arg.agentId) = formatPublicKeyField(last.arg.key)
    /\ Holding(server, last.arg.agentId, MAIN)
    /\ Holding(server, last.arg.agentId, FAAM)

\* C26: a pinned key is never replaced; the key pinned for an identifier is
\* the one its first accepted write to main carried and was signed with; and
\* every write accepted for an identifier that has a pinned key, whatever
\* the branch and whatever key its card embeds, was signed with that key
C26_PinnedKeyNeverReplaced ==
    [][/\ \A key \in Keys :
             Pinned(server, IdOf(key)) # ENOENT =>
                 Pinned(server', IdOf(key)) = Pinned(server, IdOf(key))
       /\ Accepted(last') /\ Pinned(server, last'.arg.agentId) = ENOENT =>
              /\ last'.arg.cardKey = last'.arg.key
              /\ Pinned(server', last'.arg.agentId) = formatPublicKeyField(last'.arg.key)
       /\ Accepted(last') /\ Pinned(server, last'.arg.agentId) # ENOENT =>
              Pinned(server, last'.arg.agentId) = formatPublicKeyField(last'.arg.key)]_vars

\* the service took a write to main whose card embeds another key than the
\* pinned one, which it still holds
C26_MainWithAnotherKeyTaken ==
    /\ Accepted(last)
    /\ last.arg.branch = MAIN
    /\ last.arg.cardKey # last.arg.key
    /\ Pinned(server, last.arg.agentId) = formatPublicKeyField(last.arg.key)

\* C27: a login, and likewise a signed write, that arrives more than five
\* minutes after its timestamp is answered 401 whatever its signature is
\* worth, and one that arrives within five minutes is never answered 401
C27_StaleIsExpiredBeforeTheSignatureCounts ==
    [][last'.op \in {"login", "put"} =>
           (last'.ret.status = 401 <=> last'.arg.delay > FiveMinutes)]_vars

\* a login signed for one domain and presented for the other, of an
\* identifier whose key is pinned, arrived late and was answered 401
C27_LateLoginWithBadSignature ==
    /\ last.op = "login"
    /\ last.arg.delay > FiveMinutes
    /\ last.arg.signedFor # last.arg.presentedFor
    /\ Pinned(server, last.arg.agentId) # ENOENT
    /\ last.ret.status = 401

\* C28: a login signed for one domain and presented for another, with the
\* same identifier, timestamp and signature, does not verify under the key
\* that signed it, is never answered 200, and is answered 403 when it is in
\* time and the identifier has a pinned key; presented for the domain it was
\* signed for it does verify under that key
C28_LoginBoundToItsDomain ==
    [][last'.op = "login" =>
           LET a == last'.arg
               verifies == verifySignature(a.key,
                               LoginMessage(a.body.agent_id, a.body.domain, a.body.timestamp),
                               a.body.signature)
           IN  /\ verifies <=> a.signedFor = a.presentedFor
               /\ a.signedFor # a.presentedFor =>
                      /\ last'.ret.status # 200
                      /\ a.delay <= FiveMinutes /\ Pinned(server, a.agentId) # ENOENT =>
                             last'.ret.status = 403]_vars

\* a login signed for faam.io by the holder of the pinned key was presented
\* in time for discord.com and answered 403
C28_ReplayedForAnotherDomain ==
    /\ last.op = "login"
    /\ last.arg.signedFor = <<Str("faam.io")>>
    /\ last.arg.presentedFor = <<Str("discord.com")>>
    /\ last.arg.delay = 0
    /\ Pinned(server, last.arg.agentId) = formatPublicKeyField(last.arg.key)
    /\ last.ret.status = 403

(***************************************************************************)
(* The service: who may read                                               *)
(***************************************************************************)

\* C30: the service answers a request for the snapshot of a branch other
\* than main with the snapshot only when the request carries the challenge
\* the service issues for that branch of that identifier, the challenge has
\* not expired, and the signature is the one the pinned key of the
\* identifier verifies over the challenge; and no such request changes what
\* the service holds
C30_ReleasedOnlyToASignedOwnChallenge ==
    [][last'.op = "get" =>
           LET a == last'.arg
           IN  /\ server' = server
               /\ last'.ret.status = 200 =>
                      /\ a.carries
                      /\ \E t \in 0..a.t :
                            /\ a.challenge = issueChallenge(a.agentId, a.branch, t)
                            /\ a.t <= t + FiveMinutes
                      /\ Pinned(server, a.agentId) # ENOENT
                      /\ verifySignature(Slice(Pinned(server, a.agentId), 1), a.challenge,
                                         a.signature)
                      /\ Holding(server, a.agentId, a.branch)
                      /\ last'.ret.text = server[a.agentId \o <<Str(":")>> \o a.branch].card_json]_<<last.op, vars>>

\* the service released the faam.io snapshot
C30_SnapshotReleased ==
    /\ last.op = "get"
    /\ last.ret.status = 200
    /\ last.arg.carries
    /\ Holding(server, last.arg.agentId, FAAM)

(***************************************************************************)
(* The identity of a store                                                 *)
(***************************************************************************)

\* C31, as stated: when the write of either half of the keypair fails,
\* generateKeypair fails and neither half is on disk
C31_NoPartialIdentity ==
    last.op = "generateKeypair" /\ last.err # "" =>
        identity.pub = ENOENT /\ identity.key = ENOENT

\* C32, as stated: after a successful init the store holds an agent
\* identifier, the one derived from the public key it holds in its
\* ed25519:<base64> form
C32_InitPersistsDerivedAgentId ==
    last.op = "init" /\ last.err = "" =>
        /\ identity.pub # ENOENT
        /\ identity.id # ENOENT
        /\ Trim(identity.id) = deriveAgentId(formatPublicKeyField(Trim(identity.pub)))

(***************************************************************************)
(* The guard of checkout                                                   *)
(***************************************************************************)

\* HEAD does not name a branch, the snapshot of its tip is not stored, or the
\* working document cannot be read
GuardCannotRun(d) == ~HeadSnapshotOk(d) \/ ~WorkOk(d)

\* C33, as stated: when HEAD is malformed, or the snapshot of HEAD or the
\* working document cannot be read, checkout fails and changes neither the
\* working document nor HEAD
C33_CheckoutNeverSwallows ==
    [][last'.op = "checkout" /\ nitDir /\ GuardCannotRun(Disk) =>
           /\ last'.err # ""
           /\ workFile' = workFile
           /\ headFile' = headFile]_<<last.op, vars>>

(***************************************************************************)
(* History                                                                 *)
(***************************************************************************)

\* the digests of the commits on the parent chain from h, fuel bounding the walk
RECURSIVE Ancestors(_, _, _)
Ancestors(d, h, fuel) ==
    IF h = NULL \/ ~Stored(d, h) \/ fuel = 0 THEN {}
    ELSE {h} \cup Ancestors(d, CommitOf(d, h).parent, fuel - 1)

\* the commits in the history of branch b
History(d, b) == Ancestors(d, Tip(d, b), Cardinality(DOMAIN d.objects))

\* C34: no step of init, commit, branch, checkout or push changes or removes
\* a stored object, removes a branch, or takes a commit out of the history of
\* a branch: the tip of a branch only moves to a descendant of itself
C34_HistoryOnlyGrows ==
    [][/\ \A h \in DOMAIN objects : h \in DOMAIN objects' /\ objects'[h] = objects[h]
       /\ \A b \in DOMAIN heads :
             /\ b \in DOMAIN heads'
             /\ History(Disk, b) \subseteq History(Disk', b)]_<<last.op, vars>>

\* a commit moved the second branch on: its history holds the commit of
\* init, which is the whole history of main, and the new commit
C34_SecondBranchMovedOn ==
    /\ last.op = "commit"
    /\ last.err = ""
    /\ HeadBranch(Disk) = FAAM
    /\ Cardinality(History(Disk, FAAM)) = 2
    /\ History(Disk, MAIN) = {Tip(Disk, MAIN)}
    /\ History(Disk, MAIN) \subseteq History(Disk, FAAM)

(***************************************************************************)
(* commit and checkout on what an uncommitted edit is                      *)
(***************************************************************************)

\* C35, as stated: a checkout succeeds only from a state in which commit
\* would fail with NoChanges
C35_CheckoutPassesOnlyWhereCommitHasNothing ==
    [][last'.op = "checkout" /\ last'.err = "" =>
           \A message \in Messages :
               commit(Disk, message, Forever, now, now).err = "NoChanges"]_<<last.op, vars>>

(***************************************************************************)
(* A push of every branch to a service that has not seen the identity      *)
(***************************************************************************)

\* C36: a push of all branches from a store with the branches main and
\* faam.io and a saved identifier, to a service that holds no key of that
\* identifier, leaves the service holding every branch and every
\* remote-tracking ref equal to the tip of its branch
C36_PushAllReachesEveryBranch ==
    [][/\ last'.op = "push"
       /\ last'.arg.all
       /\ last'.err = ""
       /\ {MAIN, FAAM} \subseteq DOMAIN heads
       /\ identity.id # ENOENT
       /\ Pinned(server, Trim(identity.id)) = ENOENT
       => \A b \in {MAIN, FAAM} :
             /\ Holding(server', Trim(identity.id), b)
             /\ RemoteTip(Disk', b) = Tip(Disk', b)]_<<last.op, vars>>

(***************************************************************************)
(* What a signature made for a read is good for                            *)
(***************************************************************************)

\* the texts a write request of the identifier at clock t is signed over
WriteTexts(agentId, t) ==
    { CanonicalMessage(Request(method, API_BASE, path, <<>>,
                               [NoHeaders EXCEPT !.agentId = agentId,
                                                 !.timestamp = <<Num(t)>>],
                               body)) :
          method \in {<<Str("PUT")>>, <<Str("DELETE")>>, <<Str("GET")>>},
          path \in {<<Str("/agent-card/branches")>>,
                    <<Str("/agent-card/branches/")>> \o encodeURIComponent(MAIN),
                    <<Str("/agent-card/branches/")>> \o encodeURIComponent(FAAM)},
          body \in {UNDEFINED, workFile} }

\* the texts a login of the identifier at clock t is signed over
LoginTexts(agentId, t) == { LoginMessage(agentId, domain, t) : domain \in Domains }

\* C37: no signature that fetchBranchCard sends with a challenge verifies,
\* under the key of the store, as the signature of a write request or of a
\* login of the identifier of the store
C37_ChallengeSignatureOnlyForTheRead ==
    [][last'.op = "fetch" /\ identity.pub # ENOENT /\ identity.id # ENOENT =>
          \A i \in DOMAIN last'.ret.sent :
              LET h == last'.ret.sent[i].request.headers
              IN  h.signature # UNDEFINED =>
                      \A text \in WriteTexts(Trim(identity.id), now)
                                    \cup LoginTexts(Trim(identity.id), now) :
                          ~verifySignature(Trim(identity.pub), text, h.signature)]_<<last.op, vars>>

(***************************************************************************)
(* The remote-tracking refs and what the service holds                     *)
(***************************************************************************)

\* C38: a branch with a remote-tracking ref is held by the service under the
\* identifier of the store, with the digest of the ref; and after a delete
\* that the service accepted the branch has no remote-tracking ref and
\* status counts every commit of its history as ahead
C38_TrackingRefMirrorsTheService ==
    [][/\ \A b \in {MAIN, FAAM} :
             RemoteTip(Disk', b) # NULL =>
                 /\ identity'.id # ENOENT
                 /\ Holding(server', Trim(identity'.id), b)
                 /\ server'[BranchKey(Trim(identity'.id), b)].commit_hash = RemoteTip(Disk', b)
       /\ last'.op = "delete" /\ last'.err = "" /\ last'.ret.v =>
             /\ RemoteTip(Disk', last'.arg.branch) = NULL
             /\ \A i \in DOMAIN status(Disk').ret.branches :
                    LET s == status(Disk').ret.branches[i]
                    IN  s.name = last'.arg.branch =>
                            s.ahead = Cardinality(History(Disk', s.name))]_<<last.op, vars>>

(***************************************************************************)
(* The commit that commit returns                                          *)
(***************************************************************************)

\* C39: the record a successful commit returns is the first entry of log
\* right after it, field by field, and its hash is the digest of the
\* serialization of the fields it returns
C39_ReturnedCommitIsTheStoredOne ==
    [][last'.op = "commit" /\ last'.err = "" =>
          LET returned == last'.ret
              logged == log(Disk', <<>>)
          IN  /\ logged.err = ""
              /\ Len(logged.ret) >= 1
              /\ logged.ret[1].hash = returned.hash
              /\ logged.ret[1].card = returned.card
              /\ logged.ret[1].parent = returned.parent
              /\ logged.ret[1].author = returned.author
              /\ logged.ret[1].timestamp = returned.timestamp
              /\ logged.ret[1].message = returned.message
              /\ returned.hash
                     = hashObject("commit",
                                  serializeCommit([card |-> returned.card,
                                                   parent |-> returned.parent,
                                                   author |-> returned.author,
                                                   timestamp |-> returned.timestamp,
                                                   message |-> returned.message]))]_<<last.op, vars>>

(***************************************************************************)
(* The walk that counts the commits ahead                                  *)
(***************************************************************************)

\* the commits of branch b that the remote-tracking digest does not reach
Unpushed(d, b) ==
    History(d, b) \ Ancestors(d, RemoteTip(d, b), Cardinality(DOMAIN d.objects))

\* C40: the parent chain of every branch ends at a root without meeting a
\* commit twice, the remote-tracking digest of a branch is a commit of its
\* history, and the count status reports for a branch with such a digest is
\* the number of commits above it, fewer than the whole history
C40_AheadWalkEndsAtTheRemoteDigest ==
    /\ \A b \in DOMAIN heads :
          /\ ChainLen(Disk, Tip(Disk, b), Cardinality(DOMAIN objects) + 1)
                 = Cardinality(History(Disk, b))
          /\ RemoteTip(Disk, b) # NULL => RemoteTip(Disk, b) \in History(Disk, b)
    /\ (last.op = "status" /\ last.err = "") =>
          \A i \in 1..Len(last.ret.branches) :
              LET b == last.ret.branches[i].name
                  ahead == last.ret.branches[i].ahead
              IN  RemoteTip(Disk, b) # NULL =>
                      /\ ahead = Cardinality(Unpushed(Disk, b))
                      /\ ahead < Cardinality(History(Disk, b))

\* status counted one commit ahead on a branch of two commits whose first
\* commit was pushed
C40_StoppedBelowTheTip ==
    /\ last.op = "status"
    /\ last.err = ""
    /\ Cardinality(History(Disk, MAIN)) = 2
    /\ RemoteTip(Disk, MAIN) \in History(Disk, MAIN) \ {Tip(Disk, MAIN)}
    /\ \E i \in 1..Len(last.ret.branches) :
          last.ret.branches[i].name = MAIN /\ last.ret.branches[i].ahead = 1

====
